---- MODULE Spec2Model ----
(***************************************************************************)
(* Answer validation of the Christmas quiz backend.                        *)
(*                                                                         *)
(*   backend/answer_validator.py  rule model, normalisation, edit          *)
(*                                distance, list splitting, the five       *)
(*                                comparators and validate_answer          *)
(*   backend/main.py              check_answer_with_ai: rule lookup,       *)
(*                                exact match, Ollama call, parsing of     *)
(*                                the reply, confidence threshold and      *)
(*                                the exact-match fallback                 *)
(*                                                                         *)
(* A Python string is a sequence of one-character strings.  A number is    *)
(* an integer scaled by Scale (fixed point), so that "1.5" is 15000.       *)
(***************************************************************************)
EXTENDS Integers, Sequences, FiniteSets, TLC

(***************************************************************************)
(* Characters and the str methods the code uses                            *)
(***************************************************************************)

\* str.isspace() for one character
IsSpace(c) == c \in {" ", "\t", "\n"}

\* str.lower() for one character
LowerChar(c) ==
    CASE c = "A" -> "a"
      [] c = "B" -> "b"
      [] c = "C" -> "c"
      [] c = "D" -> "d"
      [] c = "E" -> "e"
      [] c = "F" -> "f"
      [] c = "G" -> "g"
      [] c = "H" -> "h"
      [] c = "I" -> "i"
      [] c = "J" -> "j"
      [] c = "K" -> "k"
      [] c = "L" -> "l"
      [] c = "M" -> "m"
      [] c = "N" -> "n"
      [] c = "O" -> "o"
      [] c = "P" -> "p"
      [] c = "Q" -> "q"
      [] c = "R" -> "r"
      [] c = "S" -> "s"
      [] c = "T" -> "t"
      [] c = "U" -> "u"
      [] c = "V" -> "v"
      [] c = "W" -> "w"
      [] c = "X" -> "x"
      [] c = "Y" -> "y"
      [] c = "Z" -> "z"
      [] c = "Å" -> "å"
      [] c = "Ä" -> "ä"
      [] c = "Ö" -> "ö"
      [] OTHER -> c

\* str.lower()
lower(s) == [i \in DOMAIN s |-> LowerChar(s[i])]

RECURSIVE lstrip(_)
\* str.lstrip(): drop the leading whitespace
lstrip(s) ==
    IF s = <<>> THEN <<>>
    ELSE IF IsSpace(Head(s)) THEN lstrip(Tail(s)) ELSE s

RECURSIVE rstrip(_)
\* str.rstrip(): drop the trailing whitespace
rstrip(s) ==
    IF s = <<>> THEN <<>>
    ELSE IF IsSpace(s[Len(s)]) THEN rstrip(SubSeq(s, 1, Len(s) - 1)) ELSE s

\* str.strip()
strip(s) == rstrip(lstrip(s))

RECURSIVE CollapseSpaces(_)
\* re.sub(r'\s+', ' ', text): every maximal run of whitespace becomes " "
CollapseSpaces(s) ==
    IF s = <<>> THEN <<>>
    ELSE IF IsSpace(Head(s))
         THEN <<" ">> \o CollapseSpaces(lstrip(s))
         ELSE <<Head(s)>> \o CollapseSpaces(Tail(s))

\* a in b for two strings (the empty string is in every string)
IsSubstring(a, b) ==
    \E i \in 0..(Len(b) - Len(a)) : SubSeq(b, i + 1, i + Len(a)) = a

RECURSIVE WordRun(_, _)
\* length of the maximal run of non-whitespace of s that starts at position i
WordRun(s, i) ==
    IF i <= Len(s) /\ ~IsSpace(s[i]) THEN 1 + WordRun(s, i + 1) ELSE 0

RECURSIVE WordsOf(_)
\* the words of a string that does not start with whitespace
WordsOf(t) ==
    IF t = <<>> THEN <<>>
    ELSE <<SubSeq(t, 1, WordRun(t, 1))>>
         \o WordsOf(lstrip(SubSeq(t, WordRun(t, 1) + 1, Len(t))))

\* str.split(): the maximal runs of non-whitespace characters, in order
SplitWords(s) == WordsOf(lstrip(s))

\* set(xs) for a list xs
SetOf(xs) == {xs[k] : k \in DOMAIN xs}

\* min() of a non-empty set of integers
Min(S) == CHOOSE x \in S : \A y \in S : x <= y

(***************************************************************************)
(* answer_validator.py: helpers                                            *)
(***************************************************************************)

RECURSIVE LevCurrentRow_costly(_, _, _, _)
\* LevCurrentRow whose substitutions cost 1 for equal characters too
LevCurrentRow_costly(previous_row, c1, s2, current_row) ==
    IF Len(current_row) = Len(s2) + 1 THEN current_row
    ELSE LevCurrentRow_costly(previous_row, c1, s2,
             Append(current_row,
                    Min({previous_row[Len(current_row) + 1] + 1,
                         current_row[Len(current_row)] + 1,
                         previous_row[Len(current_row)] + 1})))

RECURSIVE LevCurrentRow(_, _, _, _)
\* the inner loop of levenshtein_distance: extends current_row by one cell
\* per character of s2
LevCurrentRow(previous_row, c1, s2, current_row) ==
    IF Len(current_row) = Len(s2) + 1 THEN current_row
    ELSE LET j == Len(current_row)
             insertions == previous_row[j + 1] + 1
             deletions == current_row[j] + 1
             substitutions == previous_row[j] + (IF c1 # s2[j] THEN 1 ELSE 0)
         IN LevCurrentRow(previous_row, c1, s2,
                Append(current_row, Min({insertions, deletions, substitutions})))

RECURSIVE LevRows(_, _, _, _)
\* the outer loop of levenshtein_distance: one row per character of s1 (a row
\* is never empty); the result is previous_row[-1]
LevRows(s1, s2, i, previous_row) ==
    IF previous_row # <<>> /\ i <= Len(s1)
    THEN LevRows(s1, s2, i + 1, LevCurrentRow(previous_row, s1[i], s2, <<i>>))
    ELSE previous_row[Len(previous_row)]

\* levenshtein_distance(s1, s2)
levenshtein_distance(s1, s2) ==
    LET a == IF Len(s1) < Len(s2) THEN s2 ELSE s1
        b == IF Len(s1) < Len(s2) THEN s1 ELSE s2
    IN IF Len(b) = 0 THEN Len(a)
       ELSE LevRows(a, b, 1, [k \in 1..(Len(b) + 1) |-> k - 1])

\* normalize_text that strips and lowers but leaves runs of whitespace alone
normalize_text_no_collapse(text, case_sensitive) ==
    IF ~case_sensitive THEN lower(strip(text)) ELSE strip(text)

\* normalize_text(text, case_sensitive)
normalize_text(text, case_sensitive) ==
    CollapseSpaces(IF ~case_sensitive THEN lower(strip(text)) ELSE strip(text))

\* strings_match_fuzzy(s1, s2, max_distance, allow_contains)
strings_match_fuzzy(s1, s2, max_distance, allow_contains) ==
    IF s1 = s2 THEN TRUE
    ELSE IF allow_contains /\ (IsSubstring(s1, s2) \/ IsSubstring(s2, s1)) THEN TRUE
    ELSE levenshtein_distance(s1, s2) <= max_distance

(***************************************************************************)
(* Numbers: float() and the number pattern of validate_numeric             *)
(***************************************************************************)

\* fixed-point unit: a float value v is the integer v * Scale
Scale == 10 * 10 * 10 * 10

IsDigit(c) == c \in {"0", "1", "2", "3", "4", "5", "6", "7", "8", "9"}

DigitVal(c) ==
    CASE c = "0" -> 0 [] c = "1" -> 1 [] c = "2" -> 2 [] c = "3" -> 3
      [] c = "4" -> 4 [] c = "5" -> 5 [] c = "6" -> 6 [] c = "7" -> 7
      [] c = "8" -> 8 [] c = "9" -> 9

RECURSIVE DigitRun(_, _)
\* length of the maximal run of digits of s that starts at position i
DigitRun(s, i) ==
    IF i <= Len(s) /\ IsDigit(s[i]) THEN 1 + DigitRun(s, i + 1) ELSE 0

RECURSIVE IntOfDigits(_)
\* int() of a string of digits
IntOfDigits(d) ==
    IF d = <<>> THEN 0
    ELSE 10 * IntOfDigits(SubSeq(d, 1, Len(d) - 1)) + DigitVal(d[Len(d)])

RECURSIVE Pow10(_)
Pow10(n) == IF n <= 0 THEN 1 ELSE 10 * Pow10(n - 1)

\* the value, times Scale, of the fraction digits d (d after the point)
FracOfDigits(d) == (IntOfDigits(d) * Scale) \div Pow10(Len(d))

\* the position after the match of \.?\d* that starts at position p of s
FractionEnd(s, p) ==
    IF p <= Len(s) /\ s[p] = "." THEN p + 1 + DigitRun(s, p + 1) ELSE p

\* the match of -?\d+\.?\d* that starts at position i of s
NumberAt(s, i) ==
    IF s[i] = "-"
    THEN SubSeq(s, i, FractionEnd(s, i + 1 + DigitRun(s, i + 1)) - 1)
    ELSE SubSeq(s, i, FractionEnd(s, i + DigitRun(s, i)) - 1)

\* re.findall(r'-?\d+\.?\d*', s)[0]: the leftmost match, or <<>> if none
FirstNumber(s) ==
    LET starts == {i \in 1..Len(s) :
                      \/ IsDigit(s[i])
                      \/ s[i] = "-" /\ i < Len(s) /\ IsDigit(s[i + 1])}
    IN IF starts = {} THEN <<>> ELSE NumberAt(s, Min(starts))

\* float() of the unsigned text u that has n digits, then a point or not,
\* then m digits: [ok |-> FALSE] stands for ValueError
FloatUnsigned(u, n, point, m, negative) ==
    IF n + (IF point THEN 1 + m ELSE 0) = Len(u) /\ n + m > 0
    THEN [ok |-> TRUE,
          value |-> (IF negative THEN 0 - 1 ELSE 1)
                    * (IntOfDigits(SubSeq(u, 1, n)) * Scale
                       + FracOfDigits(SubSeq(u, n + 2, n + 1 + m)))]
    ELSE [ok |-> FALSE, value |-> 0]

\* float() of the text u after its sign
FloatDigits(u, n, negative) ==
    IF n < Len(u) /\ u[n + 1] = "."
    THEN FloatUnsigned(u, n, TRUE, DigitRun(u, n + 2), negative)
    ELSE FloatUnsigned(u, n, FALSE, 0, negative)

\* float() of a text without surrounding whitespace
FloatStripped(t) ==
    IF t # <<>> /\ Head(t) \in {"-", "+"}
    THEN FloatDigits(Tail(t), DigitRun(Tail(t), 1), Head(t) = "-")
    ELSE FloatDigits(t, DigitRun(t, 1), FALSE)

\* float(text): [ok |-> FALSE] stands for ValueError
float(text) == FloatStripped(strip(text))

\* abs()
abs(x) == IF x < 0 THEN 0 - x ELSE x

(***************************************************************************)
(* Python float arithmetic: IEEE 754 binary64, round to nearest, ties to   *)
(* even.  A natural number is a sequence of bits, most significant first,  *)
(* with no leading zero; a double is zero or mant * 2^exp with a mantissa  *)
(* of DoubleBits bits                                                      *)
(***************************************************************************)

\* the bits of the mantissa of a double
DoubleBits == 53

\* how far a decimal value is shifted left before it is divided by Scale
DecimalShift == 70

\* n zero bits
ZeroBits(n) == [i \in 1..n |-> 0]

RECURSIVE BitsOf(_)
\* the bits of the natural number n
BitsOf(n) == IF n = 0 THEN <<>> ELSE BitsOf(n \div 2) \o <<n % 2>>

\* bits without its leading zeros
StripZeros(bits) ==
    IF \A i \in DOMAIN bits : bits[i] = 0 THEN <<>>
    ELSE SubSeq(bits, Min({i \in DOMAIN bits : bits[i] = 1}), Len(bits))

\* the arithmetic works on limbs of LimbBits bits, most significant first
LimbBits == 10

LimbBase == 1024

RECURSIVE BitsValue(_)
\* the natural number that bits stands for
BitsValue(bits) ==
    IF bits = <<>> THEN 0
    ELSE 2 * BitsValue(SubSeq(bits, 1, Len(bits) - 1)) + bits[Len(bits)]

\* bits with leading zeros up to a whole number of limbs
PadToLimbs(bits) ==
    ZeroBits((LimbBits - (Len(bits) % LimbBits)) % LimbBits) \o bits

\* the limbs of padded bits
LimbsOfPadded(padded) ==
    [i \in 1..(Len(padded) \div LimbBits) |->
        BitsValue(SubSeq(padded, LimbBits * (i - 1) + 1, LimbBits * i))]

\* the limbs of bits
Limbs(bits) == LimbsOfPadded(PadToLimbs(bits))

\* the bits of limbs, LimbBits for each limb
BitsOfLimbs(limbs) ==
    [i \in 1..(LimbBits * Len(limbs)) |->
        (limbs[(i - 1) \div LimbBits + 1]
            \div BitsValue(<<1>> \o ZeroBits(LimbBits - 1 - ((i - 1) % LimbBits))))
        % 2]

RECURSIVE DivLimbs(_, _, _, _)
\* the quotient limbs of the long division of limbs by d, from limb i on
\* with the remainder r so far
DivLimbs(limbs, d, i, r) ==
    IF i > Len(limbs) THEN <<>>
    ELSE <<(LimbBase * r + limbs[i]) \div d>>
         \o DivLimbs(limbs, d, i + 1, (LimbBase * r + limbs[i]) % d)

RECURSIVE ModLimbs(_, _, _, _)
\* the remainder of the long division of limbs by d
ModLimbs(limbs, d, i, r) ==
    IF i > Len(limbs) THEN r
    ELSE ModLimbs(limbs, d, i + 1, (LimbBase * r + limbs[i]) % d)

\* the quotient bits of the division of bits by d
DivQuotient(bits, d) == BitsOfLimbs(DivLimbs(Limbs(bits), d, 1, 0))

\* the remainder of the division of bits by d
DivRemainder(bits, d) == ModLimbs(Limbs(bits), d, 1, 0)

\* the position of the last zero bit of bits
LastZero(bits) ==
    CHOOSE j \in DOMAIN bits :
        bits[j] = 0 /\ \A k \in DOMAIN bits : k > j => bits[k] = 1

\* bits + 1
AddOne(bits) ==
    IF \A i \in DOMAIN bits : bits[i] = 1
    THEN <<1>> \o ZeroBits(Len(bits))
    ELSE [i \in DOMAIN bits |->
             IF i < LastZero(bits) THEN bits[i]
             ELSE IF i = LastZero(bits) THEN 1 ELSE 0]

\* a < b for two bit sequences of the same length
BitsLess(a, b) ==
    /\ a # b
    /\ a[Min({i \in DOMAIN a : a[i] # b[i]})] = 0

RECURSIVE SubLimbs(_, _, _, _)
\* the limbs 1..i of a - b for two limb sequences of the same length,
\* a >= b, with the borrow that comes in at limb i
SubLimbs(a, b, i, borrow) ==
    IF i = 0 THEN <<>>
    ELSE SubLimbs(a, b, i - 1, IF a[i] - b[i] - borrow < 0 THEN 1 ELSE 0)
         \o <<(a[i] - b[i] - borrow + LimbBase) % LimbBase>>

RECURSIVE AddLimbs(_, _, _, _)
\* the limbs 1..i of a + b for two limb sequences of the same length whose
\* sum fits in it, with the carry that comes in at limb i
AddLimbs(a, b, i, carry) ==
    IF i = 0 THEN <<>>
    ELSE AddLimbs(a, b, i - 1, (a[i] + b[i] + carry) \div LimbBase)
         \o <<(a[i] + b[i] + carry) % LimbBase>>

\* a - b for two bit sequences of the same length, a >= b
SubBits(a, b) == BitsOfLimbs(SubLimbs(Limbs(a), Limbs(b), Len(Limbs(a)), 0))

\* a + b for two bit sequences of the same length that start with a zero
AddBits(a, b) == BitsOfLimbs(AddLimbs(Limbs(a), Limbs(b), Len(Limbs(a)), 0))

\* the double zero
DoubleZero == [negative |-> FALSE, mant |-> <<>>, exp |-> 0]

\* the double of the first DoubleBits bits of bits, rounded up or not
RoundedDouble(negative, bits, exp, up) ==
    IF up /\ Len(AddOne(SubSeq(bits, 1, DoubleBits))) > DoubleBits
    THEN [negative |-> negative,
          mant |-> <<1>> \o ZeroBits(DoubleBits - 1),
          exp |-> exp + Len(bits) - DoubleBits + 1]
    ELSE [negative |-> negative,
          mant |-> IF up THEN AddOne(SubSeq(bits, 1, DoubleBits))
                   ELSE SubSeq(bits, 1, DoubleBits),
          exp |-> exp + Len(bits) - DoubleBits]

\* the double nearest to bits * 2^exp (plus a positive amount below the last
\* bit if sticky), ties to even; bits has no leading zero
NearestDouble(negative, bits, exp, sticky) ==
    IF bits = <<>> THEN DoubleZero
    ELSE IF Len(bits) <= DoubleBits
    THEN [negative |-> negative,
          mant |-> bits \o ZeroBits(DoubleBits - Len(bits)),
          exp |-> exp - (DoubleBits - Len(bits))]
    ELSE RoundedDouble(negative, bits, exp,
            /\ bits[DoubleBits + 1] = 1
            /\ \/ sticky
               \/ \E i \in (DoubleBits + 2)..Len(bits) : bits[i] = 1
               \/ bits[DoubleBits] = 1)

\* float() of the decimal value x / Scale
Double(x) ==
    NearestDouble(x < 0,
        StripZeros(DivQuotient(BitsOf(abs(x)) \o ZeroBits(DecimalShift), Scale)),
        0 - DecimalShift,
        DivRemainder(BitsOf(abs(x)) \o ZeroBits(DecimalShift), Scale) # 0)

\* a <= b for two doubles that are not negative
DoubleLeq(a, b) ==
    \/ a.mant = <<>>
    \/ /\ b.mant # <<>>
       /\ \/ a.exp < b.exp
          \/ a.exp = b.exp /\ ~BitsLess(b.mant, a.mant)

\* a - b for the aligned bits of two doubles that are not negative: the
\* difference is exact before it is rounded
DoubleDiff(abits, bbits, exp) ==
    IF abits = bbits THEN DoubleZero
    ELSE IF BitsLess(abits, bbits)
    THEN NearestDouble(TRUE, StripZeros(SubBits(bbits, abits)), exp, FALSE)
    ELSE NearestDouble(FALSE, StripZeros(SubBits(abits, bbits)), exp, FALSE)

\* the bits of the double a at the exponent exp <= a.exp, in width bits
AlignedBits(a, exp, width) ==
    IF a.mant = <<>> THEN ZeroBits(width)
    ELSE ZeroBits(width - Len(a.mant) - (a.exp - exp)) \o a.mant \o ZeroBits(a.exp - exp)

\* the exponent at which two doubles are aligned
AlignExp(a, b) ==
    IF a.mant = <<>> THEN b.exp
    ELSE IF b.mant = <<>> THEN a.exp
    ELSE Min({a.exp, b.exp})

\* the width in which two doubles are aligned
AlignWidth == DoubleBits + DecimalShift

\* abs(a - b) for two doubles: the float subtraction, which rounds the exact
\* difference, and abs()
DoubleAbsDiff(a, b) ==
    IF a.negative = b.negative \/ a.mant = <<>> \/ b.mant = <<>>
    THEN [DoubleDiff(AlignedBits(a, AlignExp(a, b), AlignWidth),
                     AlignedBits(b, AlignExp(a, b), AlignWidth),
                     AlignExp(a, b))
          EXCEPT !.negative = FALSE]
    ELSE NearestDouble(FALSE,
             StripZeros(AddBits(AlignedBits(a, AlignExp(a, b), AlignWidth),
                                AlignedBits(b, AlignExp(a, b), AlignWidth))),
             AlignExp(a, b), FALSE)

(***************************************************************************)
(* answer_validator.py: split_list_answer                                  *)
(***************************************************************************)

RECURSIVE SpaceRun(_, _)
\* length of the maximal run of whitespace of s that starts at position i
SpaceRun(s, i) ==
    IF i <= Len(s) /\ IsSpace(s[i]) THEN 1 + SpaceRun(s, i + 1) ELSE 0

\* the conjunctions of the pattern, in the order of its alternatives
Conjunctions == << <<"o", "c", "h">>, <<"a", "n", "d">>, <<"&">> >>

\* length of the match of [,;]|\s+och\s+|\s+and\s+|\s+&\s+ (IGNORECASE)
\* that starts at position i of s, 0 if there is none
SepLenAt(s, i) ==
    IF s[i] \in {",", ";"} THEN 1
    ELSE LET k == SpaceRun(s, i)
             hits == {w \in 1..Len(Conjunctions) :
                         /\ k > 0
                         /\ i + k + Len(Conjunctions[w]) - 1 <= Len(s)
                         /\ lower(SubSeq(s, i + k, i + k + Len(Conjunctions[w]) - 1))
                               = Conjunctions[w]
                         /\ SpaceRun(s, i + k + Len(Conjunctions[w])) > 0}
         IN IF hits = {} THEN 0
            ELSE LET w == Min(hits)
                 IN k + Len(Conjunctions[w]) + SpaceRun(s, i + k + Len(Conjunctions[w]))

RECURSIVE ReSplit(_, _, _)
\* re.split: the pieces of s between the matches, scanning from position i
\* with the current piece starting at position start
ReSplit(s, i, start) ==
    IF i > Len(s) THEN <<SubSeq(s, start, Len(s))>>
    ELSE LET n == SepLenAt(s, i)
         IN IF n = 0 THEN ReSplit(s, i + 1, start)
            ELSE <<SubSeq(s, start, i - 1)>> \o ReSplit(s, i + n, i + n)

\* [x for x in items if keep(x)], for sequences
RECURSIVE NonEmptyItems(_)
NonEmptyItems(items) ==
    IF items = <<>> THEN <<>>
    ELSE (IF Len(Head(items)) > 0 THEN <<Head(items)>> ELSE <<>>)
         \o NonEmptyItems(Tail(items))

\* split_list_answer(text)
split_list_answer(text) ==
    LET items == ReSplit(text, 1, 1)
        stripped == [k \in DOMAIN items |-> strip(items[k])]
    IN NonEmptyItems(stripped)

(***************************************************************************)
(* answer_validator.py: rules, comparators, validate_answer                *)
(***************************************************************************)

\* class ValidationType
ValidationType == {"EXACT", "CONTAINS", "LIST", "NUMERIC", "ANY_OF", "AI"}

\* the default of ValidationRule.max_items, which validate_list reads as
\* "no upper bound"
DefaultMaxItems == 999

\* ValidationRule(validation_type, correct_answers, tolerance, case_sensitive,
\* min_items, max_items); tolerance is a number (times Scale)
ValidationRule(validation_type, correct_answers, tolerance, case_sensitive, min_items, max_items) ==
    [validation_type |-> validation_type,
     correct_answers |-> correct_answers,
     tolerance |-> tolerance,
     case_sensitive |-> case_sensitive,
     min_items |-> min_items,
     max_items |-> max_items]

\* a reasoning text: the fixed part of the message and the values formatted
\* into it
Reason(text, args) == [text |-> text, args |-> args]

\* the (is_correct, reasoning) pair a comparator returns
Outcome(is_correct, reasoning) == [is_correct |-> is_correct, reasoning |-> reasoning]

\* an exception leaving a function
Raised(e) == [raised |-> e]

\* Python's None
None == [none |-> TRUE]

\* the dict validate_answer and check_answer_with_ai return
Verdict(is_correct, confidence, reasoning, method) ==
    [is_correct |-> is_correct, confidence |-> confidence,
     reasoning |-> reasoning, method |-> method]

IsVerdict(r) == "method" \in DOMAIN r

RECURSIVE ExactLoop(_, _, _)
\* the loop of validate_exact over rule.correct_answers, from index k
ExactLoop(normalized, rule, k) ==
    IF k > Len(rule.correct_answers)
    THEN Outcome(FALSE, Reason("Does not match expected answer", <<>>))
    ELSE LET correct_normalized ==
                 normalize_text(rule.correct_answers[k], rule.case_sensitive)
         IN IF normalized = correct_normalized
            THEN Outcome(TRUE, Reason("Exact match", <<>>))
            ELSE IF rule.tolerance > 0
                    /\ levenshtein_distance(normalized, correct_normalized) * Scale
                          <= rule.tolerance
                 THEN Outcome(TRUE,
                        Reason("Match with minor spelling difference (within tolerance)",
                               <<rule.tolerance>>))
                 ELSE ExactLoop(normalized, rule, k + 1)

\* validate_exact that also accepts an answer contained in an accepted answer,
\* or containing one (strings_match_fuzzy with allow_contains)
validate_exact_lenient(user_answer, rule) ==
    IF \E k \in DOMAIN rule.correct_answers :
          strings_match_fuzzy(normalize_text(user_answer, rule.case_sensitive),
                              normalize_text(rule.correct_answers[k], rule.case_sensitive),
                              0, TRUE)
    THEN Outcome(TRUE, Reason("Exact match", <<>>))
    ELSE Outcome(FALSE, Reason("Does not match expected answer", <<>>))

\* validate_exact(user_answer, rule)
validate_exact(user_answer, rule) ==
    ExactLoop(normalize_text(user_answer, rule.case_sensitive), rule, 1)

\* ContainsTerm that compares the whole answer only and never its words
ContainsTerm_whole(normalized, term_normalized) ==
    \/ IsSubstring(term_normalized, normalized)
    \/ IsSubstring(normalized, term_normalized)

\* one round of the loop of validate_contains: does term match?
ContainsTerm(normalized, term_normalized) ==
    \/ IsSubstring(term_normalized, normalized)
    \/ IsSubstring(normalized, term_normalized)
    \/ \E word \in SetOf(SplitWords(normalized)) :
           strings_match_fuzzy(word, term_normalized, 2, TRUE)

RECURSIVE MatchedTerms(_, _, _)
\* matched_terms of validate_contains, built from index k on
MatchedTerms(normalized, rule, k) ==
    IF k > Len(rule.correct_answers) THEN <<>>
    ELSE (IF ContainsTerm(normalized,
                 normalize_text(rule.correct_answers[k], rule.case_sensitive))
          THEN <<rule.correct_answers[k]>> ELSE <<>>)
         \o MatchedTerms(normalized, rule, k + 1)

\* validate_contains(user_answer, rule)
validate_contains(user_answer, rule) ==
    LET matched_terms ==
            MatchedTerms(normalize_text(user_answer, rule.case_sensitive), rule, 1)
    IN IF matched_terms # <<>>
       THEN Outcome(TRUE, Reason("Contains key term(s)", matched_terms))
       ELSE Outcome(FALSE, Reason("Missing required terms", <<>>))

\* xs.count(x)
Count(xs, x) == Cardinality({k \in DOMAIN xs : xs[k] = x})

\* ListItemMatches that also lets an item match by containment
\* (strings_match_fuzzy with allow_contains)
ListItemMatches_contains(user_item, correct_item) ==
    strings_match_fuzzy(user_item, correct_item, 1, TRUE)

\* the test of the inner loop of validate_list: user_item matches correct_item
ListItemMatches(user_item, correct_item) ==
    \/ user_item = correct_item
    \/ levenshtein_distance(user_item, correct_item) <= 1

\* found_match after the inner loop of validate_list for user_item
FoundMatch(user_item, correct_items) ==
    \E c \in DOMAIN correct_items : ListItemMatches(user_item, correct_items[c])

\* the items of user_items, in order, whose found_match is the flag wanted
SelectItems(user_items, correct_items, wanted) ==
    SelectSeq(user_items, LAMBDA user_item : FoundMatch(user_item, correct_items) = wanted)

\* [normalize_text(item, case_sensitive) for item in items]
NormalizeItems(items, case_sensitive) ==
    [k \in DOMAIN items |-> normalize_text(items[k], case_sensitive)]

\* a duplicate test that never finds one
HasDuplicates_never(user_items_normalized) == FALSE

\* len(unique_items) < len(user_items_normalized)
HasDuplicates(user_items_normalized) ==
    Cardinality(SetOf(user_items_normalized)) < Len(user_items_normalized)

\* ListOutcome that lets an accepted entry be matched by one item only
ListOutcome_consumed(user_items_normalized, correct_answers_normalized, rule) ==
    IF \/ HasDuplicates(user_items_normalized)
       \/ Len(user_items_normalized) < rule.min_items
       \/ Len(user_items_normalized) > rule.max_items
       \/ \E i \in DOMAIN user_items_normalized :
             ~FoundMatch(user_items_normalized[i], correct_answers_normalized)
       \/ \E i, j \in DOMAIN user_items_normalized :
             /\ i < j
             /\ \E c \in DOMAIN correct_answers_normalized :
                   /\ ListItemMatches(user_items_normalized[i],
                                      correct_answers_normalized[c])
                   /\ ListItemMatches(user_items_normalized[j],
                                      correct_answers_normalized[c])
    THEN Outcome(FALSE, Reason("Invalid item(s)", <<>>))
    ELSE Outcome(TRUE, Reason("All items matched (order independent)",
                              <<Len(user_items_normalized)>>))

\* lines 163-211 of validate_list, on the normalised lists; the duplicated
\* values are reported as a set: the order in which
\* ', '.join(set(duplicates)) lists them is not fixed
ListOutcome(user_items_normalized, correct_answers_normalized, rule) ==
    LET unique_items == SetOf(user_items_normalized)
        duplicates == {x \in unique_items : Count(user_items_normalized, x) > 1}
    IN IF HasDuplicates(user_items_normalized)
       THEN Outcome(FALSE, Reason("Duplicate items found", duplicates))
       ELSE IF rule.min_items > 0 /\ Cardinality(unique_items) < rule.min_items
       THEN Outcome(FALSE, Reason("Need at least min_items unique items",
                                  <<rule.min_items, Cardinality(unique_items)>>))
       ELSE IF rule.max_items < DefaultMaxItems
               /\ Cardinality(unique_items) > rule.max_items
       THEN Outcome(FALSE, Reason("Too many items",
                                  <<rule.max_items, Cardinality(unique_items)>>))
       ELSE IF SelectItems(user_items_normalized, correct_answers_normalized, FALSE)
                  # <<>>
       THEN Outcome(FALSE,
                Reason("Invalid item(s)",
                       SelectItems(user_items_normalized, correct_answers_normalized,
                                   FALSE)))
       ELSE Outcome(TRUE,
                Reason("All items matched (order independent)",
                       <<Len(SelectItems(user_items_normalized,
                                         correct_answers_normalized, TRUE))>>))

\* lines 153-161 of validate_list, on the items of the answer
ListItemsOutcome(user_items, rule) ==
    IF user_items = <<>>
    THEN Outcome(FALSE, Reason("No items provided", <<>>))
    ELSE ListOutcome(NormalizeItems(user_items, rule.case_sensitive),
                     NormalizeItems(rule.correct_answers, rule.case_sensitive), rule)

\* validate_list(user_answer, rule)
validate_list(user_answer, rule) ==
    ListItemsOutcome(split_list_answer(user_answer), rule)

\* difference <= rule.tolerance for the float difference and a tolerance
\* that is an int or a float
WithinTolerance(difference, tolerance) ==
    tolerance >= 0 /\ DoubleLeq(difference, Double(tolerance))

\* lines 226-237 of validate_numeric: the comparison of the two values, which
\* are floats
NumericOutcome(user_value, target_value, tolerance) ==
    IF WithinTolerance(DoubleAbsDiff(Double(user_value), Double(target_value)),
                       tolerance)
    THEN (IF DoubleAbsDiff(Double(user_value), Double(target_value)) = DoubleZero
          THEN Outcome(TRUE, Reason("Exact numeric match", <<user_value>>))
          ELSE Outcome(TRUE, Reason("Within tolerance", <<user_value, tolerance>>)))
    ELSE Outcome(FALSE, Reason("Outside acceptable range",
                               <<user_value, target_value, tolerance>>))

\* lines 223-224 of validate_numeric: the two float() calls, user value first
NumericValues(user_value, rule) ==
    IF ~user_value.ok
    THEN Outcome(FALSE, Reason("Invalid numeric format", <<>>))
    ELSE IF rule.correct_answers = <<>>
    THEN Raised("IndexError")
    ELSE IF ~float(rule.correct_answers[1]).ok
    THEN Outcome(FALSE, Reason("Invalid numeric format", <<>>))
    ELSE NumericOutcome(user_value.value, float(rule.correct_answers[1]).value,
                        rule.tolerance)

\* validate_numeric(user_answer, rule)
validate_numeric(user_answer, rule) ==
    IF FirstNumber(user_answer) = <<>>
    THEN Outcome(FALSE, Reason("No numeric value found in answer", <<>>))
    ELSE NumericValues(float(FirstNumber(user_answer)), rule)

\* AnyOfLoop that reports the last accepted answer that matches, not the first
AnyOfLoop_last(normalized, rule, k) ==
    IF \E j \in k..Len(rule.correct_answers) :
           strings_match_fuzzy(normalized,
               normalize_text(rule.correct_answers[j], rule.case_sensitive), 2, TRUE)
    THEN Outcome(TRUE, Reason("Matched acceptable answer",
             <<rule.correct_answers[
                 CHOOSE j \in k..Len(rule.correct_answers) :
                     /\ strings_match_fuzzy(normalized,
                            normalize_text(rule.correct_answers[j], rule.case_sensitive),
                            2, TRUE)
                     /\ \A i \in (j + 1)..Len(rule.correct_answers) :
                            ~strings_match_fuzzy(normalized,
                                normalize_text(rule.correct_answers[i],
                                               rule.case_sensitive), 2, TRUE)]>>))
    ELSE Outcome(FALSE, Reason("Does not match any acceptable answer", <<>>))

RECURSIVE AnyOfLoop(_, _, _)
\* the loop of validate_any_of over rule.correct_answers, from index k
AnyOfLoop(normalized, rule, k) ==
    IF k > Len(rule.correct_answers)
    THEN Outcome(FALSE, Reason("Does not match any acceptable answer", <<>>))
    ELSE LET correct_normalized ==
                 normalize_text(rule.correct_answers[k], rule.case_sensitive)
         IN IF \/ IsSubstring(correct_normalized, normalized)
               \/ strings_match_fuzzy(normalized, correct_normalized, 2, TRUE)
            THEN Outcome(TRUE, Reason("Matched acceptable answer",
                                      <<rule.correct_answers[k]>>))
            ELSE AnyOfLoop(normalized, rule, k + 1)

\* validate_any_of(user_answer, rule)
validate_any_of(user_answer, rule) ==
    AnyOfLoop(normalize_text(user_answer, rule.case_sensitive), rule, 1)

\* the comparator validate_answer routes rule.validation_type to
Comparator(user_answer, rule) ==
    CASE rule.validation_type = "EXACT" -> validate_exact(user_answer, rule)
      [] rule.validation_type = "CONTAINS" -> validate_contains(user_answer, rule)
      [] rule.validation_type = "LIST" -> validate_list(user_answer, rule)
      [] rule.validation_type = "NUMERIC" -> validate_numeric(user_answer, rule)
      [] rule.validation_type = "ANY_OF" -> validate_any_of(user_answer, rule)

\* RuleVerdict with confidence 100 for every verdict
RuleVerdict_always_100(outcome) ==
    IF "raised" \in DOMAIN outcome THEN outcome
    ELSE Verdict(outcome.is_correct, 100, outcome.reasoning, "rule_based")

\* lines 283-295: the dict made of what the comparator returned
RuleVerdict(outcome) ==
    IF "raised" \in DOMAIN outcome THEN outcome
    ELSE Verdict(outcome.is_correct, IF outcome.is_correct THEN 100 ELSE 0,
                 outcome.reasoning, "rule_based")

\* validate_answer that tests for the AI type before the empty answer
validate_answer_ai_first(user_answer, rule) ==
    IF rule.validation_type = "AI" THEN None
    ELSE IF user_answer = <<>> \/ strip(user_answer) = <<>>
    THEN Verdict(FALSE, 100, Reason("Empty answer", <<>>), "rule_based")
    ELSE RuleVerdict(Comparator(user_answer, rule))

\* validate_answer that has no branch for the AI type
validate_answer_no_ai_branch(user_answer, rule) ==
    IF user_answer = <<>> \/ strip(user_answer) = <<>>
    THEN Verdict(FALSE, 100, Reason("Empty answer", <<>>), "rule_based")
    ELSE IF rule.validation_type \notin ValidationType \ {"AI"}
    THEN Verdict(FALSE, 0, Reason("Unknown validation type", <<rule.validation_type>>),
                 "error")
    ELSE RuleVerdict(Comparator(user_answer, rule))

\* validate_answer(user_answer, rule)
validate_answer(user_answer, rule) ==
    IF user_answer = <<>> \/ strip(user_answer) = <<>>
    THEN Verdict(FALSE, 100, Reason("Empty answer", <<>>), "rule_based")
    ELSE IF rule.validation_type = "AI" THEN None
    ELSE IF rule.validation_type \notin ValidationType
    THEN Verdict(FALSE, 0, Reason("Unknown validation type", <<rule.validation_type>>),
                 "error")
    ELSE RuleVerdict(Comparator(user_answer, rule))

(***************************************************************************)
(* answer_validator.py: the rule table                                     *)
(***************************************************************************)

\* QUESTION_RULES: the table of the source, entry by entry
QUESTION_RULES ==
       (1 :> ValidationRule("EXACT",
          << <<"C", "l", "o", "e", "t", "t", "a">> >>,
          1 * Scale, FALSE, 0, DefaultMaxItems))
    @@ (2 :> ValidationRule("LIST",
          << <<"d", "o", "c", "k", "a">>,
             <<"d", "o", "l", "l">>,
             <<"l", "e", "k", "s", "a", "k", "s", "b", "i", "l">>,
             <<"l", "e", "k", "s", "a", "k", "s", "b", "i", "l", "b", "i", "l">>,
             <<"t", "o", "y", " ", "c", "a", "r">>,
             <<"t", "v", "-", "s", "p", "e", "l">>,
             <<"t", "v", "s", "p", "e", "l">>,
             <<"t", "v", " ", "s", "p", "e", "l">>,
             <<"v", "i", "d", "e", "o", "s", "p", "e", "l">>,
             <<"v", "i", "d", "e", "o", " ", "g", "a", "m", "e">>,
             <<"v", "i", "d", "e", "o", " ", "g", "a", "m", "e", "s">>,
             <<"f", "o", "t", "b", "o", "l", "l", "s", "t", "r", "ö", "j", "a">>,
             <<"f", "o", "t", "b", "o", "l", "l", "s", "t", "r", "o", "j", "a">>,
             <<"f", "o", "o", "t", "b", "a", "l", "l", " ", "s", "h", "i", "r", "t">>,
             <<"s", "o", "c", "c", "e", "r", " ", "j", "e", "r", "s", "e", "y">> >>,
          0 * Scale, FALSE, 4, 4))
    @@ (3 :> ValidationRule("CONTAINS",
          << <<"6", " ", "j", "a", "n", "u", "a", "r", "i">>,
             <<"j", "a", "n", "u", "a", "r", "i", " ", "6">>,
             <<"t", "r", "e", "t", "t", "o", "n", "d", "e", "d", "a", "g">>,
             <<"d", "í", "a", " ", "d", "e", " ", "l", "o", "s", " ", "r", "e", "y", "e", "s">>,
             <<"d", "i", "a", " ", "d", "e", " ", "l", "o", "s", " ", "r", "e", "y", "e", "s">> >>,
          0 * Scale, FALSE, 0, DefaultMaxItems))
    @@ (4 :> ValidationRule("EXACT",
          << <<"M", "e", "n", "o", "r", "a">>,
             <<"M", "e", "n", "o", "r", "a", "h">> >>,
          0 * Scale, FALSE, 0, DefaultMaxItems))
    @@ (5 :> ValidationRule("LIST",
          << <<"p", "o", "l", "s", "t", "j", "ä", "r", "n", "a", "n">>,
             <<"p", "o", "l", "s", "t", "j", "a", "r", "n", "a", "n">>,
             <<"n", "o", "r", "t", "h", " ", "s", "t", "a", "r">>,
             <<"s", "i", "r", "i", "u", "s">>,
             <<"d", "ö", "d", "s", "s", "t", "j", "ä", "r", "n", "a", "n">>,
             <<"d", "o", "d", "s", "s", "t", "j", "a", "r", "n", "a", "n">>,
             <<"d", "e", "a", "t", "h", " ", "s", "t", "a", "r">> >>,
          0 * Scale, FALSE, 3, 3))
    @@ (6 :> ValidationRule("ANY_OF",
          << <<"U", "n", "i", "s", "e", "x", "d", "o", "f", "t">>,
             <<"U", "n", "i", "s", "e", "x", "d", "o", "f", "t", "e", "n">>,
             <<"S", "ä", "l", "l", "s", "k", "a", "p", "s", "s", "p", "e", "l">>,
             <<"S", "a", "l", "l", "s", "k", "a", "p", "s", "s", "p", "e", "l">>,
             <<"S", "ä", "l", "l", "s", "k", "a", "p", "s", "s", "p", "e", "l", "e", "t">>,
             <<"h", "e", "m", "s", "t", "i", "c", "k", "a", "d", "e">>,
             <<"h", "e", "m", "s", "t", "i", "c", "k", "a", "d", "e", " ", "p", "l", "a", "g", "g", "e", "t">>,
             <<"E", "v", "e", "n", "e", "m", "a", "n", "g", "s", "b", "i", "l", "j", "e", "t", "t">>,
             <<"E", "v", "e", "n", "e", "m", "a", "n", "g", "s", "b", "i", "l", "j", "e", "t", "t", "e", "n">>,
             <<"S", "t", "o", "r", "m", "k", "ö", "k">>,
             <<"S", "t", "o", "r", "m", "k", "o", "k">>,
             <<"S", "t", "o", "r", "m", "k", "ö", "k", "e", "t">>,
             <<"M", "o", "b", "i", "l", "l", "å", "d", "a">>,
             <<"M", "o", "b", "i", "l", "l", "a", "d", "a", "n">>,
             <<"M", "o", "b", "i", "l", "l", "å", "d", "a", "n">> >>,
          0 * Scale, FALSE, 0, DefaultMaxItems))
    @@ (7 :> ValidationRule("EXACT",
          << <<"C", "h", "e", "o", "p", "s", "p", "y", "r", "a", "m", "i", "d", "e", "n">>,
             <<"K", "e", "o", "p", "s", "p", "y", "r", "a", "m", "i", "d", "e", "n">>,
             <<"G", "r", "e", "a", "t", " ", "P", "y", "r", "a", "m", "i", "d">>,
             <<"G", "i", "z", "a", " ", "p", "y", "r", "a", "m", "i", "d">>,
             <<"P", "y", "r", "a", "m", "i", "d", " ", "o", "f", " ", "G", "i", "z", "a">>,
             <<"P", "y", "r", "a", "m", "i", "d", " ", "o", "f", " ", "C", "h", "e", "o", "p", "s">>,
             <<"P", "y", "r", "a", "m", "i", "d", " ", "o", "f", " ", "K", "h", "u", "f", "u">> >>,
          0 * Scale, FALSE, 0, DefaultMaxItems))
    @@ (8 :> ValidationRule("LIST",
          << <<"f", "o", "r">>,
             <<"w", "h", "i", "l", "e">>,
             <<"f", "o", "r", "-", "l", "o", "o", "p">>,
             <<"w", "h", "i", "l", "e", "-", "l", "o", "o", "p">>,
             <<"f", "o", "r", " ", "l", "o", "o", "p">>,
             <<"w", "h", "i", "l", "e", " ", "l", "o", "o", "p">> >>,
          0 * Scale, FALSE, 2, 2))
    @@ (9 :> ValidationRule("NUMERIC",
          << <<"1", "1", "0">> >>,
          5 * Scale, FALSE, 0, DefaultMaxItems))
    @@ (10 :> ValidationRule("EXACT",
          << <<"6">>,
             <<"s", "e", "x">>,
             <<"s", "i", "x">>,
             <<"6", " ", "s", "t", "y", "c", "k", "e", "n">>,
             <<"s", "e", "x", " ", "s", "t", "y", "c", "k", "e", "n">> >>,
          0 * Scale, FALSE, 0, DefaultMaxItems))
    @@ (11 :> ValidationRule("EXACT",
          << <<"E", "v", "a">> >>,
          0 * Scale, FALSE, 0, DefaultMaxItems))
    @@ (12 :> ValidationRule("EXACT",
          << <<"R", "o", "u", "t", "e", " ", "6", "6">>,
             <<"R", "o", "u", "t", "e", "6", "6">>,
             <<"H", "i", "g", "h", "w", "a", "y", " ", "6", "6">> >>,
          0 * Scale, FALSE, 0, DefaultMaxItems))
    @@ (13 :> ValidationRule("EXACT",
          << <<"L", "u", "x">> >>,
          0 * Scale, FALSE, 0, DefaultMaxItems))
    @@ (14 :> ValidationRule("EXACT",
          << <<"I", "r", "a", "n">> >>,
          0 * Scale, FALSE, 0, DefaultMaxItems))
    @@ (15 :> ValidationRule("CONTAINS",
          << <<"i", " ", "j", "u", "l", "t", "o", "m", "t", "e", "n", "s", " ", "v", "e", "r", "k", "s", "t", "a", "d">>,
             <<"j", "u", "l", "t", "o", "m", "t", "e", "n", "s", " ", "v", "e", "r", "k", "s", "t", "a", "d">>,
             <<"S", "a", "n", "t", "a", "'", "s", " ", "W", "o", "r", "k", "s", "h", "o", "p">>,
             <<"S", "a", "n", "t", "a", "s", " ", "W", "o", "r", "k", "s", "h", "o", "p">> >>,
          0 * Scale, FALSE, 0, DefaultMaxItems))
    @@ (16 :> ValidationRule("LIST",
          << <<"G", "o", "l", "d", "e", "n", " ", "G", "a", "t", "e">>,
             <<"G", "o", "l", "d", "e", "n", " ", "G", "a", "t", "e", " ", "B", "r", "i", "d", "g", "e">>,
             <<"T", "o", "w", "e", "r", " ", "B", "r", "i", "d", "g", "e">> >>,
          0 * Scale, FALSE, 2, 2))
    @@ (17 :> ValidationRule("EXACT",
          << <<"A", "t", "l", "a", "n", "t", "a">> >>,
          0 * Scale, FALSE, 0, DefaultMaxItems))
    @@ (18 :> ValidationRule("LIST",
          << <<"g", "u", "l", "d">>,
             <<"g", "o", "l", "d">>,
             <<"r", "ö", "k", "e", "l", "s", "e">>,
             <<"r", "o", "k", "e", "l", "s", "e">>,
             <<"f", "r", "a", "n", "k", "i", "n", "c", "e", "n", "s", "e">>,
             <<"i", "n", "c", "e", "n", "s", "e">>,
             <<"m", "y", "r", "r", "a">>,
             <<"m", "y", "r", "r", "h">> >>,
          0 * Scale, FALSE, 3, 3))
    @@ (19 :> ValidationRule("EXACT",
          << <<"W", "u", "h", "a", "n">> >>,
          0 * Scale, FALSE, 0, DefaultMaxItems))
    @@ (20 :> ValidationRule("CONTAINS",
          << <<"s", "h", "a", "r", "e", " ", "s", "c", "r", "e", "e", "n">>,
             <<"s", "h", "a", "r", "e">>,
             <<"s", "c", "r", "e", "e", "n">>,
             <<"d", "e", "l", "a", " ", "s", "k", "ä", "r", "m">>,
             <<"d", "e", "l", "a", " ", "s", "k", "a", "r", "m">>,
             <<"s", "k", "ä", "r", "m", "d", "e", "l", "n", "i", "n", "g">> >>,
          0 * Scale, FALSE, 0, DefaultMaxItems))
    @@ (21 :> ValidationRule("CONTAINS",
          << <<"v", "i", "n", "t", "e", "r", "s", "o", "l", "s", "t", "å", "n", "d">>,
             <<"v", "i", "n", "t", "e", "r", "s", "o", "l", "s", "t", "a", "n", "d">>,
             <<"s", "o", "l", "s", "t", "i", "c", "e">>,
             <<"k", "o", "r", "t", "a", "s", "t", "e", " ", "d", "a", "g">>,
             <<"k", "o", "r", "t", "a", "s", "t", "e", " ", "d", "a", "g", "e", "n">>,
             <<"s", "h", "o", "r", "t", "e", "s", "t", " ", "d", "a", "y">> >>,
          0 * Scale, FALSE, 0, DefaultMaxItems))
    @@ (22 :> ValidationRule("EXACT",
          << <<"M", "o", "m", "e", "n", "t", " ", "2", "2">>,
             <<"C", "a", "t", "c", "h", "-", "2", "2">>,
             <<"C", "a", "t", "c", "h", " ", "2", "2">> >>,
          0 * Scale, FALSE, 0, DefaultMaxItems))
    @@ (23 :> ValidationRule("LIST",
          << <<"r", "ö", "d">>,
             <<"r", "o", "d">>,
             <<"r", "e", "d">>,
             <<"l", "i", "l", "a">>,
             <<"p", "u", "r", "p", "l", "e">>,
             <<"g", "r", "ö", "n">>,
             <<"g", "r", "o", "n">>,
             <<"g", "r", "e", "e", "n">>,
             <<"g", "u", "l">>,
             <<"y", "e", "l", "l", "o", "w">>,
             <<"b", "l", "å">>,
             <<"b", "l", "a">>,
             <<"b", "l", "u", "e">> >>,
          0 * Scale, FALSE, 5, 5))
    @@ (24 :> ValidationRule("EXACT",
          << <<"J", "a", "p", "a", "n">> >>,
          0 * Scale, FALSE, 0, DefaultMaxItems))

\* an optional integer argument: <<>> is None, <<d>> is the integer d
NoDay == <<>>

\* get_validation_rule(day_number): QUESTION_RULES.get(day_number)
get_validation_rule(day_number) ==
    IF day_number \in DOMAIN QUESTION_RULES THEN QUESTION_RULES[day_number] ELSE None

(***************************************************************************)
(* main.py: check_answer_with_ai, the parsing of the reply                 *)
(***************************************************************************)

\* the literals of the three patterns
MatchLabel == <<"M", "A", "T", "C", "H", ":">>
ConfidenceLabel == <<"C", "O", "N", "F", "I", "D", "E", "N", "C", "E", ":">>
ReasoningLabel == <<"R", "E", "A", "S", "O", "N", "I", "N", "G", ":">>
Yes == <<"Y", "E", "S">>
No == <<"N", "O">>

\* does pat occur in t at position q (ignorecase: re.IGNORECASE)
StartsAt(t, q, pat, ignorecase) ==
    /\ q >= 1
    /\ q + Len(pat) - 1 <= Len(t)
    /\ IF ignorecase
       THEN lower(SubSeq(t, q, q + Len(pat) - 1)) = lower(pat)
       ELSE SubSeq(t, q, q + Len(pat) - 1) = pat

\* the end of the line that position q of t is on
LineEnd(t, q) ==
    LET breaks == {k \in q..Len(t) : t[k] = "\n"}
    IN IF breaks = {} THEN Len(t) ELSE Min(breaks) - 1

\* max() of a non-empty set of integers
Max(S) == CHOOSE x \in S : \A y \in S : y <= x

\* group(1) of the MATCH pattern when (YES|NO) matches at position q of t
MatchGroup(t, q) ==
    IF StartsAt(t, q, Yes, TRUE)
    THEN SubSeq(t, q, q + Len(Yes) - 1)
    ELSE SubSeq(t, q, q + Len(No) - 1)

\* re.search(r'MATCH:\s*(YES|NO)', t, re.IGNORECASE): found, and group(1)
match_line(t) ==
    LET after(p) == p + Len(MatchLabel) + SpaceRun(t, p + Len(MatchLabel))
        hits == {p \in 1..Len(t) :
                    /\ StartsAt(t, p, MatchLabel, TRUE)
                    /\ \/ StartsAt(t, after(p), Yes, TRUE)
                       \/ StartsAt(t, after(p), No, TRUE)}
    IN IF hits = {} THEN [found |-> FALSE, group |-> <<>>]
       ELSE [found |-> TRUE, group |-> MatchGroup(t, after(Min(hits)))]

\* the maximal run of digits of t that starts at position q
DigitsAt(t, q) == SubSeq(t, q, q + DigitRun(t, q) - 1)

\* re.search(r'CONFIDENCE:\s*(\d+)', t): found, and group(1)
confidence_line(t) ==
    LET after(p) == p + Len(ConfidenceLabel) + SpaceRun(t, p + Len(ConfidenceLabel))
        hits == {p \in 1..Len(t) :
                    /\ StartsAt(t, p, ConfidenceLabel, FALSE)
                    /\ DigitRun(t, after(p)) > 0}
    IN IF hits = {} THEN [found |-> FALSE, group |-> <<>>]
       ELSE [found |-> TRUE, group |-> DigitsAt(t, after(Min(hits)))]

\* the rest of the line of t from position q on
RestOfLine(t, q) == SubSeq(t, q, LineEnd(t, q))

\* re.search(r'REASONING:\s*(.+)', t, re.IGNORECASE): found, and group(1);
\* \s* gives whitespace back until .+ has a character other than a newline
reasoning_line(t) ==
    LET starts(p) == {q \in (p + Len(ReasoningLabel))
                              ..(p + Len(ReasoningLabel)
                                   + SpaceRun(t, p + Len(ReasoningLabel))) :
                         q <= Len(t) /\ t[q] # "\n"}
        hits == {p \in 1..Len(t) :
                    StartsAt(t, p, ReasoningLabel, TRUE) /\ starts(p) # {}}
    IN IF hits = {} THEN [found |-> FALSE, group |-> <<>>]
       ELSE [found |-> TRUE, group |-> RestOfLine(t, Max(starts(Min(hits))))]

\* is_exact without .lower(): a case-sensitive comparison
is_exact_case_sensitive(player_answer, correct_answer) ==
    strip(player_answer) = strip(correct_answer)

\* player_answer.strip().lower() == correct_answer.strip().lower()
is_exact(player_answer, correct_answer) ==
    lower(strip(player_answer)) = lower(strip(correct_answer))

\* the dict check_answer_with_ai returns
Result(is_match, confidence, reasoning, method) ==
    [is_match |-> is_match, confidence |-> confidence,
     reasoning |-> reasoning, method |-> method]

\* lines 405-413 with the comparison inverted
FallbackResult_inverted(is_match, error) ==
    Result(~is_match, IF ~is_match THEN 100 ELSE 0,
           Reason("AI unavailable, used exact match. Error", <<error>>),
           "exact_fallback")

\* lines 405-413: the dict of the except branch
FallbackResult(is_match, error) ==
    Result(is_match, IF is_match THEN 100 ELSE 0,
           Reason("AI unavailable, used exact match. Error", <<error>>),
           "exact_fallback")

\* the except branch: the exact match again, with the error in the reasoning
ExactFallback(player_answer, correct_answer, error) ==
    FallbackResult(is_exact(player_answer, correct_answer), error)

\* Thresholded with the threshold test off by one (<= for <)
Thresholded_off_by_one(is_match, confidence, reasoning, threshold) ==
    IF is_match /\ confidence <= threshold
    THEN Result(FALSE, confidence,
                Reason("Confidence below threshold", <<confidence, threshold>>), "ai")
    ELSE Result(is_match, confidence, reasoning, "ai")

\* lines 392-402: the confidence threshold, and the dict returned
Thresholded(is_match, confidence, reasoning, threshold) ==
    IF is_match /\ confidence < threshold
    THEN Result(FALSE, confidence,
                Reason("Confidence below threshold", <<confidence, threshold>>), "ai")
    ELSE Result(is_match, confidence, reasoning, "ai")

\* lines 385-390: the fields m, c, r that the three searches found
ParsedReply(m, c, r, player_answer, correct_answer, threshold) ==
    IF ~m.found \/ ~c.found
    THEN ExactFallback(player_answer, correct_answer, "Invalid AI response format")
    ELSE Thresholded(lower(m.group) = lower(Yes),
                     IntOfDigits(c.group),
                     IF r.found THEN Reason("reply", <<strip(r.group)>>)
                     ELSE Reason("AI evaluation", <<>>),
                     threshold)

\* lines 377-383: the three searches in the text of the reply
ReplyResult(response_text, player_answer, correct_answer, threshold) ==
    ParsedReply(match_line(response_text), confidence_line(response_text),
                reasoning_line(response_text),
                player_answer, correct_answer, threshold)

\* the try block once ollama.chat has returned or raised: response is
\* [kind |-> "raise", error |-> e] or [kind |-> "reply", content |-> text]
OracleResult(response, player_answer, correct_answer, threshold) ==
    IF response.kind = "raise"
    THEN ExactFallback(player_answer, correct_answer, response.error)
    ELSE ReplyResult(strip(response.content), player_answer, correct_answer,
                     threshold)

(***************************************************************************)
(* Bounds and inputs of the calls                                          *)
(***************************************************************************)

\* longest answer of the exhaustive part of the answers
MaxLen == 2

\* the characters of the exhaustive part of the answers
AnswerChars == {"a", "A", " "}

\* all strings over chars of length at most n
Strings(chars, n) == UNION {[1..k -> chars] : k \in 0..n}

\* answers of backend/test_validator.py and answers with inner whitespace
SampleAnswers ==
    { <<"L", "u", "x">>,
      <<"L", "u", "x", "i">>,
      <<"C", "l", "o", "e", "t", "a">>,
      <<"F", "a", "z", "e", "r">>,
      <<"f", "o", "r", " ", "o", "c", "h", " ", "w", "h", "i", "l", "e">>,
      <<"w", "h", "i", "l", "e", ",", " ", "f", "o", "r">>,
      <<"f", "o", "r", ",", " ", "f", "o", "r">>,
      <<"1", "1", "5", " ", "k", "m", "/", "h">>,
      <<"1", "1", "6">>,
      <<"s", "e", "x">>,
      <<"c", "a", "m", "e", "r", "a">>,
      <<"U", "n", "i", "s", "e", "x", "d", "o", "f", "t">>,
      <<"g", "u", "l", "d", ",", " ", "g", "o", "l", "d", ",", " ", "m", "y", "r", "r", "a">>,
      <<"a", "\t", "a">>,
      <<"a", " ", " ", "a">> }

\* the correct_answer texts of the calls
CorrectTexts ==
    { <<"a">>,
      <<"a", " ", "a">>,
      <<"L", "u", "x">> }

\* the MATCH line of a reply (<<>>: the reply has none)
MatchLines ==
    { <<>>,
      <<"M", "A", "T", "C", "H", ":", " ", "Y", "E", "S">>,
      <<"m", "a", "t", "c", "h", ":", " ", "y", "e", "s">>,
      <<"M", "A", "T", "C", "H", ":", " ", "N", "O">>,
      <<"M", "A", "T", "C", "H", ":", " ", "M", "A", "Y", "B", "E">> }

\* the CONFIDENCE line of a reply (<<>>: the reply has none)
ConfidenceLines ==
    { <<>>,
      <<"C", "O", "N", "F", "I", "D", "E", "N", "C", "E", ":", " ", "7", "9">>,
      <<"C", "O", "N", "F", "I", "D", "E", "N", "C", "E", ":", " ", "8", "0">>,
      <<"C", "O", "N", "F", "I", "D", "E", "N", "C", "E", ":", " ", "1", "0", "0">>,
      <<"C", "O", "N", "F", "I", "D", "E", "N", "C", "E", ":", " ", "1", "5", "0">>,
      <<"C", "O", "N", "F", "I", "D", "E", "N", "C", "E", ":", " ", "h", "i", "g", "h">>,
      <<"C", "O", "N", "F", "I", "D", "E", "N", "C", "E", ":", " ", "-", "5">>,
      <<"c", "o", "n", "f", "i", "d", "e", "n", "c", "e", ":", " ", "9", "0">> }

\* the REASONING line of a reply (<<>>: the reply has none)
ReasoningLines ==
    { <<>>,
      <<"R", "E", "A", "S", "O", "N", "I", "N", "G", ":", " ", "s", "a", "m", "e">> }


\* the player_answer texts of the calls
Answers == Strings(AnswerChars, MaxLen) \cup SampleAnswers

\* the day_number arguments of the calls: None, the days of the table and
\* the days around it
DayNumbers == {NoDay} \cup {<<d>> : d \in 0..25}

\* the values of OLLAMA_CONFIDENCE_THRESHOLD (80 unless the environment
\* sets another)
Thresholds == {80, 100}

\* the exceptions ollama.chat raises
OracleErrors == {"ConnectError", "ReadTimeout", "ResponseError"}

\* the text of a reply from its lines
ReplyText(m, c, r) == m \o <<"\n">> \o c \o <<"\n">> \o r

\* what ollama.chat does: it raises, or it returns a reply
OracleResponses ==
    {[kind |-> "raise", error |-> e] : e \in OracleErrors}
    \cup {[kind |-> "reply", content |-> ReplyText(m, c, r)] :
             m \in MatchLines, c \in ConfidenceLines, r \in ReasoningLines}

(***************************************************************************)
(* main.py: check_answer_with_ai as a state machine, one call at a time    *)
(***************************************************************************)

VARIABLES
    USE_OLLAMA,                   \* module constant, read from the environment
    OLLAMA_CONFIDENCE_THRESHOLD,  \* module constant, read from the environment
    pc,                           \* where the call is
    player_answer,                \* argument
    correct_answer,               \* argument
    day_number,                   \* argument: NoDay or <<day>>
    validation_rule,              \* the rule in hand (line 299), or None
    rule_result,                  \* what validate_answer returned (line 302)
    oracle_calls,                 \* calls of ollama.chat made by this call
    response,                     \* what ollama.chat did
    returned,                     \* the dict returned to the caller
    registry,                     \* the dict object QUESTION_RULES in memory
    calls,                        \* the locals of the calls that run at once
    s1,                           \* argument of levenshtein_distance
    s2,                           \* argument of levenshtein_distance
    distance,                     \* what levenshtein_distance returned
    player_answers,               \* the committed rows of table player_answers
    score,                        \* the committed players.score of the player
    writer,                       \* the request whose connection has the write lock
    pending,                      \* what that connection wrote and did not commit
    requests,                     \* the locals of the requests being served
    served                        \* how many requests have been taken up

vars == <<USE_OLLAMA, OLLAMA_CONFIDENCE_THRESHOLD, pc, player_answer,
          correct_answer, day_number, validation_rule, rule_result,
          oracle_calls, response, returned, registry, calls,
          s1, s2, distance, player_answers, score, writer, pending, requests,
          served>>

\* the database file and the requests that use it
database == <<player_answers, score, writer, pending, requests, served>>

\* the database of a player who has joined a quiz and answered nothing, with
\* no request under way
InitDatabase ==
    /\ player_answers = {}
    /\ score = 0
    /\ writer = 0
    /\ pending = None
    /\ requests = <<>>
    /\ served = 0

\* the variables of the operations that check_answer_with_ai does not call
\* with its arguments
apart == <<s1, s2, distance, database>>

\* their values while those operations are not running
InitApart ==
    /\ s1 = <<>>
    /\ s2 = <<>>
    /\ distance = None
    /\ InitDatabase

\* what no statement of check_answer_with_ai or validate_answer assigns: the
\* two module constants, the rule table, the locals of other calls and the
\* variables of other operations
config == <<USE_OLLAMA, OLLAMA_CONFIDENCE_THRESHOLD, registry, calls, apart>>

Terminal == {"RULE_VERDICT", "EXACT_VERDICT", "ORACLE_VERDICT", "FALLBACK_VERDICT"}

Init ==
    /\ USE_OLLAMA \in BOOLEAN
    /\ OLLAMA_CONFIDENCE_THRESHOLD \in Thresholds
    /\ pc = "START"
    /\ player_answer = <<>>
    /\ correct_answer = <<>>
    /\ day_number = NoDay
    /\ validation_rule = None
    /\ rule_result = None
    /\ oracle_calls = 0
    /\ response = None
    /\ returned = None
    /\ registry = QUESTION_RULES
    /\ calls = <<>>
    /\ InitApart

\* a caller calls check_answer_with_ai(player_answer, correct_answer, day_number)
Call ==
    /\ pc = "START"
    /\ player_answer' \in Answers
    /\ correct_answer' \in CorrectTexts
    /\ day_number' \in DayNumbers
    /\ pc' = "RULE_LOOKUP"
    /\ UNCHANGED <<config, validation_rule, rule_result, oracle_calls, response,
                   returned>>

\* RuleLookup that returns the verdict of the rule only when it is correct,
\* and goes on to the exact match otherwise
RuleLookup_only_correct ==
    /\ pc = "RULE_LOOKUP"
    /\ validation_rule' = IF day_number # NoDay
                          THEN get_validation_rule(day_number[1])
                          ELSE None
    /\ rule_result' = IF validation_rule' # None
                      THEN validate_answer(player_answer, validation_rule')
                      ELSE None
    /\ IF rule_result' = None \/ ~rule_result'.is_correct
       THEN pc' = "EXACT_CHECK" /\ returned' = returned
       ELSE /\ pc' = "RULE_VERDICT"
            /\ returned' = Result(rule_result'.is_correct, rule_result'.confidence,
                                  rule_result'.reasoning, rule_result'.method)
    /\ UNCHANGED <<config, player_answer, correct_answer, day_number,
                   oracle_calls, response>>

\* lines 298-315: the rule of the day, if any, decides unless it returns None
RuleLookup ==
    /\ pc = "RULE_LOOKUP"
    /\ validation_rule' = IF day_number # NoDay
                          THEN get_validation_rule(day_number[1])
                          ELSE None
    /\ rule_result' = IF validation_rule' # None
                      THEN validate_answer(player_answer, validation_rule')
                      ELSE None
    /\ IF rule_result' = None
       THEN pc' = "EXACT_CHECK" /\ returned' = returned
       ELSE IF IsVerdict(rule_result')
       THEN /\ pc' = "RULE_VERDICT"
            /\ returned' = Result(rule_result'.is_correct, rule_result'.confidence,
                                  rule_result'.reasoning, rule_result'.method)
       ELSE pc' = "RAISED" /\ returned' = rule_result'
    /\ UNCHANGED <<config, player_answer, correct_answer, day_number,
                   oracle_calls, response>>

\* ExactCheck that does not read USE_OLLAMA
ExactCheck_ignores_switch ==
    /\ pc = "EXACT_CHECK"
    /\ IF is_exact(player_answer, correct_answer)
       THEN /\ pc' = "EXACT_VERDICT"
            /\ returned' = Result(TRUE, 100, Reason("Exact match", <<>>), "exact")
       ELSE pc' = "ORACLE_CALL" /\ returned' = returned
    /\ UNCHANGED <<config, player_answer, correct_answer, day_number,
                   validation_rule, rule_result, oracle_calls, response>>

\* ExactCheck that does not compare the texts and goes on to the oracle
ExactCheck_skipped ==
    /\ pc = "EXACT_CHECK"
    /\ IF ~USE_OLLAMA
       THEN /\ pc' = "EXACT_VERDICT"
            /\ returned' = Result(FALSE, 0,
                                  Reason("No exact match (AI disabled)", <<>>), "exact")
       ELSE pc' = "ORACLE_CALL" /\ returned' = returned
    /\ UNCHANGED <<config, player_answer, correct_answer, day_number,
                   validation_rule, rule_result, oracle_calls, response>>

\* lines 317-338: the exact match, then the USE_OLLAMA switch
ExactCheck ==
    /\ pc = "EXACT_CHECK"
    /\ IF is_exact(player_answer, correct_answer)
       THEN /\ pc' = "EXACT_VERDICT"
            /\ returned' = Result(TRUE, 100, Reason("Exact match", <<>>), "exact")
       ELSE IF ~USE_OLLAMA
       THEN /\ pc' = "EXACT_VERDICT"
            /\ returned' = Result(FALSE, 0,
                                  Reason("No exact match (AI disabled)", <<>>), "exact")
       ELSE pc' = "ORACLE_CALL" /\ returned' = returned
    /\ UNCHANGED <<config, player_answer, correct_answer, day_number,
                   validation_rule, rule_result, oracle_calls, response>>

\* OracleCall that calls ollama.chat again when the call raised
OracleCall_retries ==
    /\ pc = "ORACLE_CALL"
    /\ \E r \in OracleResponses :
          /\ response' = r
          /\ IF r.kind = "raise" /\ oracle_calls = 0
             THEN pc' = "ORACLE_CALL" /\ returned' = returned
             ELSE /\ returned' = OracleResult(r, player_answer, correct_answer,
                                              OLLAMA_CONFIDENCE_THRESHOLD)
                  /\ pc' = IF returned'.method = "ai"
                           THEN "ORACLE_VERDICT" ELSE "FALLBACK_VERDICT"
    /\ oracle_calls' = oracle_calls + 1
    /\ UNCHANGED <<config, player_answer, correct_answer, day_number,
                   validation_rule, rule_result>>

\* lines 340-413: one call of ollama.chat, the parsing of its reply, the
\* threshold, and the except branch
OracleCall ==
    /\ pc = "ORACLE_CALL"
    /\ \E r \in OracleResponses :
          /\ response' = r
          /\ returned' = OracleResult(r, player_answer, correct_answer,
                                      OLLAMA_CONFIDENCE_THRESHOLD)
    /\ oracle_calls' = oracle_calls + 1
    /\ pc' = IF returned'.method = "ai" THEN "ORACLE_VERDICT" ELSE "FALLBACK_VERDICT"
    /\ UNCHANGED <<config, player_answer, correct_answer, day_number,
                   validation_rule, rule_result>>

\* the caller has the dict; the next call starts from scratch
Return ==
    /\ pc \in Terminal
    /\ pc' = "START"
    /\ player_answer' = <<>>
    /\ correct_answer' = <<>>
    /\ day_number' = NoDay
    /\ validation_rule' = None
    /\ rule_result' = None
    /\ oracle_calls' = 0
    /\ response' = None
    /\ returned' = None
    /\ UNCHANGED config

Next == Call \/ RuleLookup \/ ExactCheck \/ OracleCall \/ Return

Spec == Init /\ [][Next]_vars

(***************************************************************************)
(* validate_answer applied to an answer and a rule                         *)
(***************************************************************************)

\* longest answer of the exhaustive part of the answers given to validate_answer
MaxEvalLen == 2

\* most accepted answers of a rule given to validate_answer
MaxAnswers == 2

\* the characters of the exhaustive part of those answers
EvalChars == {"a", "A", " ", ",", "1"}

\* longer answers: lists, duplicates, numbers
EvalSamples ==
    { <<"a", ",", "a">>,
      <<"a", ",", " ", "A">>,
      <<"A", " ", "a">>,
      <<"1", ".", "5">>,
      <<"-", "1", "a">>,
      <<"a", ",", "1", ",">>,
      <<"a", ",", "1", ",", "A", ",", "1">>,
      <<"&", ",", " ", "a", " ">>,
      <<"1", ".", "1">>,
      <<" ", "A", "\t", " ", "a", " ">> }

\* the accepted answers of the rules
EvalTexts ==
    { <<"a">>,
      <<"A", " ", "a">>,
      <<"1">> }

\* the user_answer texts given to validate_answer
EvalAnswers == Strings(EvalChars, MaxEvalLen) \cup EvalSamples

\* the correct_answers lists of the rules
EvalAnswerLists == UNION {[1..k -> EvalTexts] : k \in 0..MaxAnswers}

\* the rules given to validate_answer: every validation type, with the
\* parameters that its comparator reads; ValidationRule.__init__ stores its
\* arguments as they are, so a list may be empty, min_items may exceed
\* max_items and a tolerance may be negative
EvalRules ==
    {ValidationRule("EXACT", l, t, c, 0, DefaultMaxItems) :
        l \in EvalAnswerLists, t \in {0, 1 * Scale}, c \in BOOLEAN}
    \cup {ValidationRule("CONTAINS", l, 0, c, 0, DefaultMaxItems) :
        l \in EvalAnswerLists, c \in BOOLEAN}
    \cup {ValidationRule("LIST", l, 0, c, n, n) :
        l \in EvalAnswerLists, c \in BOOLEAN, n \in {1, 2}}
    \cup {ValidationRule("LIST", l, 0, FALSE, 0, DefaultMaxItems) :
        l \in EvalAnswerLists}
    \cup {ValidationRule("NUMERIC", l, t, FALSE, 0, DefaultMaxItems) :
        l \in EvalAnswerLists, t \in {0, Scale \div 10, 1 * Scale}}
    \cup {ValidationRule("ANY_OF", l, 0, c, 0, DefaultMaxItems) :
        l \in EvalAnswerLists, c \in BOOLEAN}
    \cup {ValidationRule("AI", l, 0, FALSE, 0, DefaultMaxItems) :
        l \in EvalAnswerLists}
    \cup {ValidationRule("LIST", l, 0, FALSE, 2, 1) :
        l \in EvalAnswerLists}
    \cup {ValidationRule("EXACT", l, 0 - 1 * Scale, FALSE, 0, DefaultMaxItems) :
        l \in EvalAnswerLists}
    \cup {ValidationRule("LIST", l, 0, FALSE, 1, 1000) :
        l \in EvalAnswerLists}

\* one call validate_answer(player_answer, validation_rule) is about to be made
InitEval ==
    /\ USE_OLLAMA = TRUE
    /\ OLLAMA_CONFIDENCE_THRESHOLD = 80
    /\ pc = "EVALUATE"
    /\ player_answer \in EvalAnswers
    /\ correct_answer = <<>>
    /\ day_number = NoDay
    /\ validation_rule \in EvalRules
    /\ rule_result = None
    /\ oracle_calls = 0
    /\ response = None
    /\ returned = None
    /\ registry = QUESTION_RULES
    /\ calls = <<>>
    /\ InitApart

\* validate_answer(player_answer, validation_rule) runs and returns
Evaluate ==
    /\ pc = "EVALUATE"
    /\ rule_result' = validate_answer(player_answer, validation_rule)
    /\ pc' = "EVALUATED"
    /\ UNCHANGED <<config, player_answer, correct_answer, day_number,
                   validation_rule, oracle_calls, response, returned>>

NextEval == Evaluate

SpecEval == InitEval /\ [][NextEval]_vars

(***************************************************************************)
(* Calls of check_answer_with_ai that run at once: the endpoints are plain *)
(* def functions, which the server runs on the threads of a pool           *)
(***************************************************************************)

\* the number of calls that run at once
MaxCalls == 2

CallIds == 1..MaxCalls

\* the arguments of the calls that run at once
ConcAnswers ==
    { <<"1", "1", "0">>,
      <<"s", "e", "x">>,
      <<"a">> }

ConcCorrectTexts == { <<"a">> }

ConcDayNumbers == {NoDay, <<9>>, <<25>>}

\* what ollama.chat does for a call: it raises, or it returns a reply
ConcResponses ==
    { [kind |-> "raise", error |-> "ConnectError"],
      [kind |-> "reply",
       content |-> ReplyText(<<"M", "A", "T", "C", "H", ":", " ", "Y", "E", "S">>,
                             <<"C", "O", "N", "F", "I", "D", "E", "N", "C", "E", ":",
                               " ", "1", "0", "0">>,
                             <<>>)],
      [kind |-> "reply",
       content |-> ReplyText(<<"M", "A", "T", "C", "H", ":", " ", "N", "O">>,
                             <<"C", "O", "N", "F", "I", "D", "E", "N", "C", "E", ":",
                               " ", "7", "9">>,
                             <<>>)] }

\* the locals of a call that has not started
Idle ==
    [pc |-> "START", player_answer |-> <<>>, correct_answer |-> <<>>,
     day_number |-> NoDay, validation_rule |-> None, rule_result |-> None,
     response |-> None, returned |-> None]

\* the locals of a call that has just been made
Started(a, c, d) ==
    [Idle EXCEPT !.pc = "RULE_LOOKUP", !.player_answer = a,
                 !.correct_answer = c, !.day_number = d]

\* dict.get(key): the value, or None
dict_get(dict, key) == IF key \in DOMAIN dict THEN dict[key] ELSE None

\* lines 305-315: what the call does with the result of validate_answer
LookupDone(c, rule, result) ==
    IF result = None
    THEN [c EXCEPT !.validation_rule = rule, !.rule_result = result,
                   !.pc = "EXACT_CHECK"]
    ELSE IF IsVerdict(result)
    THEN [c EXCEPT !.validation_rule = rule, !.rule_result = result,
                   !.pc = "RULE_VERDICT",
                   !.returned = Result(result.is_correct, result.confidence,
                                       result.reasoning, result.method)]
    ELSE [c EXCEPT !.validation_rule = rule, !.rule_result = result,
                   !.pc = "RAISED", !.returned = result]

\* lines 299-302: validate_answer with the rule in hand, if there is one
LookupRule(c, rule) ==
    LookupDone(c, rule,
               IF rule # None THEN validate_answer(c.player_answer, rule) ELSE None)

\* lines 298-315 for the call with locals c and the rule table rules
LookupStep(c, rules) ==
    LookupRule(c, IF c.day_number # NoDay
                  THEN dict_get(rules, c.day_number[1])
                  ELSE None)

\* lines 317-338 for the call with locals c
ExactStep(c, use_ollama) ==
    IF is_exact(c.player_answer, c.correct_answer)
    THEN [c EXCEPT !.pc = "EXACT_VERDICT",
                   !.returned = Result(TRUE, 100, Reason("Exact match", <<>>), "exact")]
    ELSE IF ~use_ollama
    THEN [c EXCEPT !.pc = "EXACT_VERDICT",
                   !.returned = Result(FALSE, 0,
                                       Reason("No exact match (AI disabled)", <<>>),
                                       "exact")]
    ELSE [c EXCEPT !.pc = "ORACLE_CALL"]

\* lines 397-413: the dict returned after the call of ollama.chat
OracleDone(c, r, result) ==
    [c EXCEPT !.response = r, !.returned = result,
              !.pc = IF result.method = "ai"
                     THEN "ORACLE_VERDICT" ELSE "FALLBACK_VERDICT"]

\* lines 340-413 for the call with locals c when ollama.chat does r
OracleStep(c, r, threshold) ==
    OracleDone(c, r, OracleResult(r, c.player_answer, c.correct_answer, threshold))

\* the old per-call variables, which the calls that run at once do not use
single == <<pc, player_answer, correct_answer, day_number, validation_rule,
            rule_result, oracle_calls, response, returned, apart>>

InitConc ==
    /\ USE_OLLAMA \in BOOLEAN
    /\ OLLAMA_CONFIDENCE_THRESHOLD = 80
    /\ pc = "CONCURRENT"
    /\ player_answer = <<>>
    /\ correct_answer = <<>>
    /\ day_number = NoDay
    /\ validation_rule = None
    /\ rule_result = None
    /\ oracle_calls = 0
    /\ response = None
    /\ returned = None
    /\ registry = QUESTION_RULES
    /\ calls = [i \in CallIds |-> Idle]
    /\ InitApart

\* a thread of the pool calls check_answer_with_ai
CallC(i) ==
    /\ calls[i].pc = "START"
    /\ \E a \in ConcAnswers, c \in ConcCorrectTexts, d \in ConcDayNumbers :
          calls' = [calls EXCEPT ![i] = Started(a, c, d)]
    /\ UNCHANGED <<USE_OLLAMA, OLLAMA_CONFIDENCE_THRESHOLD, registry, single>>

\* RuleLookupC that takes the rule out of the table (dict.pop for dict.get)
RuleLookupC_pops(i) ==
    /\ calls[i].pc = "RULE_LOOKUP"
    /\ calls' = [calls EXCEPT ![i] = LookupStep(calls[i], registry)]
    /\ registry' = IF calls[i].day_number = NoDay THEN registry
                   ELSE [d \in DOMAIN registry \ {calls[i].day_number[1]} |->
                            registry[d]]
    /\ UNCHANGED <<USE_OLLAMA, OLLAMA_CONFIDENCE_THRESHOLD, single>>

\* lines 298-315, run by call i: QUESTION_RULES is read, never written
RuleLookupC(i) ==
    /\ calls[i].pc = "RULE_LOOKUP"
    /\ calls' = [calls EXCEPT ![i] = LookupStep(calls[i], registry)]
    /\ UNCHANGED <<USE_OLLAMA, OLLAMA_CONFIDENCE_THRESHOLD, registry, single>>

\* lines 317-338, run by call i
ExactCheckC(i) ==
    /\ calls[i].pc = "EXACT_CHECK"
    /\ calls' = [calls EXCEPT ![i] = ExactStep(calls[i], USE_OLLAMA)]
    /\ UNCHANGED <<USE_OLLAMA, OLLAMA_CONFIDENCE_THRESHOLD, registry, single>>

\* lines 340-413, run by call i: its own call of ollama.chat
OracleCallC(i) ==
    /\ calls[i].pc = "ORACLE_CALL"
    /\ \E r \in ConcResponses :
          calls' = [calls EXCEPT
                       ![i] = OracleStep(calls[i], r, OLLAMA_CONFIDENCE_THRESHOLD)]
    /\ UNCHANGED <<USE_OLLAMA, OLLAMA_CONFIDENCE_THRESHOLD, registry, single>>

\* call i returns; its thread is free for the next call
ReturnC(i) ==
    /\ calls[i].pc \in Terminal
    /\ calls' = [calls EXCEPT ![i] = Idle]
    /\ UNCHANGED <<USE_OLLAMA, OLLAMA_CONFIDENCE_THRESHOLD, registry, single>>

NextConc ==
    \E i \in CallIds :
        CallC(i) \/ RuleLookupC(i) \/ ExactCheckC(i) \/ OracleCallC(i) \/ ReturnC(i)

SpecConc == InitConc /\ [][NextConc]_vars

\* the answers of the calls whose termination is examined
LiveAnswers ==
    { <<"s", "e", "x">>,
      <<"a">> }

\* a thread of the pool calls check_answer_with_ai with one of LiveAnswers
CallLive(i) ==
    /\ calls[i].pc = "START"
    /\ \E a \in LiveAnswers, c \in ConcCorrectTexts, d \in ConcDayNumbers :
          calls' = [calls EXCEPT ![i] = Started(a, c, d)]
    /\ UNCHANGED <<USE_OLLAMA, OLLAMA_CONFIDENCE_THRESHOLD, registry, single>>

NextLive ==
    \E i \in CallIds :
        CallLive(i) \/ RuleLookupC(i) \/ ExactCheckC(i) \/ OracleCallC(i) \/ ReturnC(i)

\* the calls under the scheduling the code guarantees: a statement of
\* check_answer_with_ai that can run does run.  ollama.chat is called with no
\* timeout argument and no client that sets one (lines 365-375), so nothing in
\* the code makes the call of the oracle end: OracleCallC has no fairness.
SpecLive ==
    /\ InitConc
    /\ [][NextLive]_vars
    /\ \A i \in CallIds :
          /\ WF_vars(RuleLookupC(i))
          /\ WF_vars(ExactCheckC(i))
          /\ WF_vars(ReturnC(i))

(***************************************************************************)
(* Properties of check_answer_with_ai (under Spec)                         *)
(***************************************************************************)

\* the day of the call has a rule in the table
RegisteredDay == day_number # NoDay /\ day_number[1] \in DOMAIN QUESTION_RULES

\* the call is past the rule lookup
PastLookup == pc \in {"EXACT_CHECK", "ORACLE_CALL"} \cup Terminal

\* trimmed and lower-cased, the two texts of the call are equal
TrimLowerEqual == lower(strip(player_answer)) = lower(strip(correct_answer))

\* normalised (trimmed, lower-cased, runs of whitespace collapsed), the two
\* texts of the call are equal
NormalizedEqual ==
    normalize_text(player_answer, FALSE) = normalize_text(correct_answer, FALSE)

\* ollama.chat returned a reply
Replied == response # None /\ response.kind = "reply"

\* the MATCH, CONFIDENCE and REASONING fields read from the reply
ReplyMatch == match_line(strip(response.content))
ReplyConfidence == confidence_line(strip(response.content))
ReplyReasoning == reasoning_line(strip(response.content))

\* the reply says MATCH: YES and gives a confidence
ReportsMatch ==
    /\ Replied
    /\ ReplyMatch.found /\ lower(ReplyMatch.group) = <<"y", "e", "s">>
    /\ ReplyConfidence.found

\* the call of ollama.chat failed: it raised, or its reply has no MATCH or no
\* CONFIDENCE that can be read
OracleFailed ==
    /\ response # None
    /\ \/ response.kind = "raise"
       \/ ~ReplyMatch.found
       \/ ~ReplyConfidence.found

\* what the reasoning of the fallback must carry: the cause of the failure
FailureCause ==
    IF response.kind = "raise" THEN response.error ELSE "Invalid AI response format"

\* C1: when the day of the call has a rule whose type is not AI, the call
\* ends with the verdict of validate_answer for that rule (is_correct,
\* confidence, reasoning and method all equal) and ollama.chat is never
\* called, whatever USE_OLLAMA, the threshold and correct_answer are.
C1_RuleVerdictReturned ==
    (/\ PastLookup
     /\ RegisteredDay
     /\ QUESTION_RULES[day_number[1]].validation_type # "AI")
    => LET v == validate_answer(player_answer, QUESTION_RULES[day_number[1]])
       IN /\ pc = "RULE_VERDICT"
          /\ returned.is_match = v.is_correct
          /\ returned.confidence = v.confidence
          /\ returned.reasoning = v.reasoning
          /\ returned.method = v.method
          /\ oracle_calls = 0
          /\ response = None

\* C1 witness: check("115 km/h", _, 9) with the oracle enabled returns the
\* rule verdict {true, 100, rule_based}
C1_Witness ==
    /\ pc = "RULE_VERDICT"
    /\ USE_OLLAMA
    /\ day_number = <<9>>
    /\ player_answer = <<"1", "1", "5", " ", "k", "m", "/", "h">>
    /\ returned.is_match /\ returned.confidence = 100
    /\ returned.method = "rule_based"

\* C2: when the reply reports a match with a confidence below the threshold,
\* the call returns is_match = FALSE with the reasoning that cites the
\* confidence and the threshold; at or above the threshold the match is
\* accepted; no verdict with method ai and is_match TRUE has a confidence
\* below the threshold.
C2_ThresholdEnforced ==
    /\ (pc \in Terminal /\ ReportsMatch)
       => IF IntOfDigits(ReplyConfidence.group) < OLLAMA_CONFIDENCE_THRESHOLD
          THEN /\ ~returned.is_match
               /\ returned.reasoning.text = "Confidence below threshold"
               /\ returned.reasoning.args =
                     <<IntOfDigits(ReplyConfidence.group), OLLAMA_CONFIDENCE_THRESHOLD>>
          ELSE returned.is_match /\ returned.method = "ai"
    /\ (pc \in Terminal /\ returned.method = "ai" /\ returned.is_match)
       => returned.confidence >= OLLAMA_CONFIDENCE_THRESHOLD

\* C2 witness: threshold 80, the reply says YES with confidence 79, the
\* verdict is FALSE
C2_Witness ==
    /\ pc = "ORACLE_VERDICT"
    /\ OLLAMA_CONFIDENCE_THRESHOLD = 80
    /\ ReportsMatch
    /\ ReplyConfidence.group = <<"7", "9">>
    /\ ~returned.is_match

\* C3 as stated: when the call of ollama.chat fails, no exception leaves the
\* call and the verdict has method exact_fallback, is_match equal to the
\* equality of the normalised texts, and the cause in its reasoning.
C3_FallbackOnNormalized ==
    /\ pc # "RAISED"
    /\ (pc \in Terminal /\ OracleFailed)
       => /\ returned.method = "exact_fallback"
          /\ returned.is_match = NormalizedEqual
          /\ returned.reasoning.args = <<FailureCause>>

\* C3 amended: as C3, with is_match equal to the equality of the trimmed,
\* lower-cased texts (runs of whitespace inside the texts are compared as
\* they are).
C3_FallbackOnTrimLower ==
    /\ pc # "RAISED"
    /\ (pc \in Terminal /\ OracleFailed)
       => /\ pc = "FALLBACK_VERDICT"
          /\ returned.method = "exact_fallback"
          /\ returned.is_match = TrimLowerEqual
          /\ returned.confidence = (IF TrimLowerEqual THEN 100 ELSE 0)
          /\ returned.reasoning.args = <<FailureCause>>

\* C3 witness: ollama.chat timed out and the call returned the fallback
C3_Witness ==
    /\ pc = "FALLBACK_VERDICT"
    /\ response.kind = "raise" /\ response.error = "ReadTimeout"
    /\ returned.method = "exact_fallback"
    /\ returned.reasoning.args = <<"ReadTimeout">>

\* C4: a reply is accepted (method ai) only if all three of MATCH (yes/no),
\* CONFIDENCE (an integer 0..100) and REASONING can be read from it; a reply
\* with one of them missing or out of range gives method exact_fallback.
C4_AllThreeRequired ==
    (pc \in Terminal /\ Replied)
    => IF /\ ReplyMatch.found
          /\ ReplyConfidence.found
          /\ IntOfDigits(ReplyConfidence.group) \in 0..100
          /\ ReplyReasoning.found
       THEN returned.method = "ai"
       ELSE returned.method = "exact_fallback"

\* C5 as stated: when the day has no rule and the normalised texts (trimmed,
\* lower-cased, runs of whitespace collapsed) are equal, the call returns
\* {TRUE, 100, "Exact match", exact} and ollama.chat is not called.
C5_ExactOnNormalized ==
    (pc \in Terminal /\ ~RegisteredDay /\ NormalizedEqual)
    => /\ returned = Result(TRUE, 100, Reason("Exact match", <<>>), "exact")
       /\ oracle_calls = 0

\* C5 amended: when the day has no rule and the trimmed, lower-cased texts
\* are equal, the call returns {TRUE, 100, "Exact match", exact} and
\* ollama.chat is not called.
C5_ExactOnTrimLower ==
    (PastLookup /\ pc # "EXACT_CHECK" /\ ~RegisteredDay /\ TrimLowerEqual)
    => /\ pc = "EXACT_VERDICT"
       /\ returned = Result(TRUE, 100, Reason("Exact match", <<>>), "exact")
       /\ oracle_calls = 0
       /\ response = None

\* C5 witness: no rule for the day, the texts differ in case and in outer
\* whitespace only, the oracle is enabled, and the verdict is the exact match
C5_Witness ==
    /\ pc = "EXACT_VERDICT"
    /\ USE_OLLAMA
    /\ day_number = <<25>>
    /\ player_answer = <<"A", " ">>
    /\ correct_answer = <<"a">>
    /\ returned.is_match /\ returned.method = "exact"

\* C6: when the day has no rule, the exact match fails and USE_OLLAMA is
\* off, the call returns {FALSE, 0, "No exact match (AI disabled)", exact}
\* and ollama.chat is not called.
C6_DisabledOracle ==
    (/\ PastLookup /\ pc # "EXACT_CHECK"
     /\ ~RegisteredDay
     /\ ~TrimLowerEqual
     /\ ~USE_OLLAMA)
    => /\ pc = "EXACT_VERDICT"
       /\ returned = Result(FALSE, 0, Reason("No exact match (AI disabled)", <<>>),
                            "exact")
       /\ oracle_calls = 0
       /\ response = None

\* C6 witness: such a call has returned
C6_Witness ==
    /\ pc = "EXACT_VERDICT"
    /\ ~USE_OLLAMA
    /\ day_number = NoDay
    /\ ~TrimLowerEqual
    /\ ~returned.is_match /\ returned.confidence = 0

\* the transitions of one call, and the return to the caller
AllowedTransitions ==
    { <<"START", "RULE_LOOKUP">>,
      <<"RULE_LOOKUP", "RULE_VERDICT">>,
      <<"RULE_LOOKUP", "EXACT_CHECK">>,
      <<"EXACT_CHECK", "EXACT_VERDICT">>,
      <<"EXACT_CHECK", "ORACLE_CALL">>,
      <<"ORACLE_CALL", "ORACLE_VERDICT">>,
      <<"ORACLE_CALL", "FALLBACK_VERDICT">> }
    \cup {<<t, "START">> : t \in Terminal}

\* C7: a call moves only along START -> RULE_LOOKUP -> {RULE_VERDICT |
\* EXACT_CHECK -> {EXACT_VERDICT | ORACLE_CALL -> {ORACLE_VERDICT |
\* FALLBACK_VERDICT}}}; ORACLE_CALL is entered only from EXACT_CHECK with
\* unequal texts and USE_OLLAMA on; ollama.chat is called at most once per
\* call and a call that leaves ORACLE_CALL is in a terminal state.
C7_StateMachine ==
    [][/\ <<pc, pc'>> \in AllowedTransitions
       /\ (pc' = "ORACLE_CALL") => (pc = "EXACT_CHECK" /\ ~TrimLowerEqual /\ USE_OLLAMA)
       /\ (pc = "ORACLE_CALL") => (pc' \in Terminal /\ oracle_calls' = 1)
       /\ (pc # "ORACLE_CALL") => (oracle_calls' \in {0, oracle_calls})
       /\ oracle_calls' <= 1]_vars

\* C7 witness: one failed call of ollama.chat, and the call is in
\* FALLBACK_VERDICT
C7_Witness ==
    /\ pc = "FALLBACK_VERDICT"
    /\ oracle_calls = 1
    /\ response.kind = "raise"

\* C8: the confidence of every verdict a call returns is an integer in 0..100.
C8_ConfidenceInRange ==
    (pc \in Terminal) => returned.confidence \in 0..100

(***************************************************************************)
(* Properties of validate_answer (under SpecEval)                          *)
(***************************************************************************)

\* the answer given to validate_answer is empty or whitespace only
BlankAnswer == strip(player_answer) = <<>>

\* validate_answer has returned a verdict with method rule_based
RuleBasedVerdict ==
    /\ pc = "EVALUATED"
    /\ IsVerdict(rule_result)
    /\ rule_result.method = "rule_based"

\* C9 as stated: every rule_based verdict of validate_answer has confidence
\* 100 if is_correct and 0 if not, for every validation type and answer.
C9_BinaryConfidence ==
    RuleBasedVerdict
    => rule_result.confidence = (IF rule_result.is_correct THEN 100 ELSE 0)

\* C9 amended: every rule_based verdict of validate_answer for an answer that
\* is not blank has confidence 100 if is_correct and 0 if not; the verdict
\* for a blank answer has is_correct FALSE and confidence 100.
C9_BinaryConfidenceNonBlank ==
    RuleBasedVerdict
    => IF BlankAnswer
       THEN ~rule_result.is_correct /\ rule_result.confidence = 100
       ELSE rule_result.confidence = (IF rule_result.is_correct THEN 100 ELSE 0)

\* C9 witness: a rejected answer that is not blank, with confidence 0
C9_Witness ==
    /\ RuleBasedVerdict
    /\ ~BlankAnswer
    /\ validation_rule.validation_type = "LIST"
    /\ ~rule_result.is_correct /\ rule_result.confidence = 0

\* C10: for an empty or whitespace-only answer validate_answer returns
\* {FALSE, 100, "Empty answer", rule_based} for a rule of every validation
\* type, AI included, whatever the comparator of the rule would do.
C10_EmptyAnswer ==
    (pc = "EVALUATED" /\ BlankAnswer)
    => rule_result = Verdict(FALSE, 100, Reason("Empty answer", <<>>), "rule_based")

\* C10 witness: a whitespace-only answer given to a rule of type AI
C10_Witness ==
    /\ pc = "EVALUATED"
    /\ player_answer = <<" ", " ">>
    /\ validation_rule.validation_type = "AI"
    /\ rule_result.method = "rule_based"

\* validate_answer has returned for a rule of type AI
EvaluatedExternal ==
    pc = "EVALUATED" /\ validation_rule.validation_type = "AI"

\* C11 as stated: for a rule of type AI validate_answer returns None (no
\* verdict) for every user answer.
C11_ExternalAlwaysNone ==
    EvaluatedExternal => rule_result = None

\* C11 amended: for a rule of type AI validate_answer returns None for every
\* user answer that is not blank, and the "Empty answer" verdict for a blank
\* one.
C11_ExternalNoneUnlessBlank ==
    EvaluatedExternal
    => IF BlankAnswer
       THEN rule_result = Verdict(FALSE, 100, Reason("Empty answer", <<>>), "rule_based")
       ELSE rule_result = None

\* C11 witness: an answer that is not blank given to a rule of type AI, and
\* None returned
C11_Witness ==
    /\ EvaluatedExternal
    /\ player_answer = <<"a", ",", "a">>
    /\ rule_result = None

\* C12: validate_answer never raises: for every user answer and every rule
\* (any validation type, any correct_answers list, the empty one included)
\* it returns a verdict or None.
C12_NeverRaises ==
    pc = "EVALUATED" => (rule_result = None \/ IsVerdict(rule_result))

\* the rule invariant: correct_answers is not empty unless the type is AI,
\* min_items <= max_items, tolerance >= 0
RuleInvariant(rule) ==
    /\ rule.validation_type # "AI" => rule.correct_answers # <<>>
    /\ rule.min_items <= rule.max_items
    /\ rule.tolerance >= 0

\* C13: every rule that validate_answer is given satisfies the rule
\* invariant, because a rule that violates it is refused when it is
\* constructed.
C13_InvariantEnforced ==
    pc = "EVALUATED" => RuleInvariant(validation_rule)

(***************************************************************************)
(* Properties of calls that run at once (under SpecConc)                   *)
(***************************************************************************)

\* what check_answer_with_ai returns when the call runs alone: the rule of
\* the day, then the exact match, then the switch, then the oracle
CheckAlone(a, c, d, r, use_ollama, threshold) ==
    LET rule == IF d # NoDay THEN get_validation_rule(d[1]) ELSE None
        result == IF rule # None THEN validate_answer(a, rule) ELSE None
    IN IF result # None
       THEN Result(result.is_correct, result.confidence, result.reasoning,
                   result.method)
       ELSE IF is_exact(a, c)
       THEN Result(TRUE, 100, Reason("Exact match", <<>>), "exact")
       ELSE IF ~use_ollama
       THEN Result(FALSE, 0, Reason("No exact match (AI disabled)", <<>>), "exact")
       ELSE OracleResult(r, a, c, threshold)

\* C14: the calls share no mutable state.  The rule table is never changed
\* by any interleaving of calls; a lookup returns the registered rule for
\* each day 1..24 and None for every other day; and every call that has
\* finished returns what the same call returns when it runs alone with the
\* same arguments and the same reply of the oracle.
C14_CallsIndependent ==
    pc = "CONCURRENT"
    => /\ registry = QUESTION_RULES
       /\ \A d \in 0..25 :
             dict_get(registry, d) = (IF d \in 1..24 THEN QUESTION_RULES[d] ELSE None)
       /\ \A i \in CallIds :
             calls[i].pc \in Terminal
             => calls[i].returned
                   = CheckAlone(calls[i].player_answer, calls[i].correct_answer,
                                calls[i].day_number, calls[i].response,
                                USE_OLLAMA, OLLAMA_CONFIDENCE_THRESHOLD)

\* C14 witness: two calls for the same day have both finished before either
\* returns, one accepted and one rejected by the rule of the day
C14_Witness ==
    /\ pc = "CONCURRENT"
    /\ calls[1].pc = "RULE_VERDICT" /\ calls[2].pc = "RULE_VERDICT"
    /\ calls[1].day_number = <<9>> /\ calls[2].day_number = <<9>>
    /\ calls[1].returned.is_match /\ ~calls[2].returned.is_match

(***************************************************************************)
(* Termination of check_answer_with_ai (under SpecLive)                    *)
(***************************************************************************)

\* C15: every call of check_answer_with_ai eventually returns a verdict,
\* also when the oracle never answers: the call then ends through the
\* except branch (method exact_fallback).
C15_EventuallyReturns ==
    \A i \in CallIds : (calls[i].pc = "RULE_LOOKUP") ~> (calls[i].pc \in Terminal)

(***************************************************************************)
(* The Exact strategy (under SpecEval)                                     *)
(***************************************************************************)

\* validate_answer has returned for a rule of type EXACT
EvaluatedExact ==
    pc = "EVALUATED" /\ validation_rule.validation_type = "EXACT"

\* accepted answer k of the rule equals the answer after normalization
ExactEqual(k) ==
    normalize_text(validation_rule.correct_answers[k], validation_rule.case_sensitive)
        = normalize_text(player_answer, validation_rule.case_sensitive)

\* accepted answer k of the rule is within the tolerance of the answer
ExactWithinTolerance(k) ==
    /\ validation_rule.tolerance > 0
    /\ levenshtein_distance(
           normalize_text(player_answer, validation_rule.case_sensitive),
           normalize_text(validation_rule.correct_answers[k],
                          validation_rule.case_sensitive)) * Scale
          <= validation_rule.tolerance

\* C16: validate_exact accepts iff some accepted answer equals the answer
\* after normalization, or the tolerance is positive and some accepted answer
\* is within it; the verdict of validate_answer for an answer that is not
\* blank is that outcome.  With tolerance 0 an answer that differs from every
\* accepted answer is rejected, a substring or superstring of one included.
C16_ExactStrict ==
    EvaluatedExact
    => /\ validate_exact(player_answer, validation_rule).is_correct
             <=> \E k \in DOMAIN validation_rule.correct_answers :
                    ExactEqual(k) \/ ExactWithinTolerance(k)
       /\ ~BlankAnswer
             => rule_result.is_correct
                   = validate_exact(player_answer, validation_rule).is_correct
       /\ (validation_rule.tolerance = 0
               /\ \A k \in DOMAIN validation_rule.correct_answers : ~ExactEqual(k))
             => ~validate_exact(player_answer, validation_rule).is_correct

\* C16 witness: with tolerance 0 the answer "a", a substring of the accepted
\* answer "A a", is rejected
C16_Witness ==
    /\ EvaluatedExact
    /\ validation_rule.tolerance = 0
    /\ validation_rule.correct_answers = << <<"A", " ", "a">> >>
    /\ player_answer = <<"a">>
    /\ ~rule_result.is_correct

(***************************************************************************)
(* The List strategy (under SpecEval)                                      *)
(***************************************************************************)

\* validate_answer has returned for a rule of type LIST
EvaluatedList ==
    pc = "EVALUATED" /\ validation_rule.validation_type = "LIST"

\* len(unique_items) of validate_list for the items of an answer
UniqueCount(user_items, rule) ==
    Cardinality(SetOf(NormalizeItems(user_items, rule.case_sensitive)))

\* chr(i) for a code point of the CJK ideographs: a character that is no
\* whitespace and no separator and that str.lower() leaves as it is
chr(i) == "chr(" \o ToString(i) \o ")"

\* how many items the long answer has: more than the 999 that validate_list
\* compares max_items with, and more than the max_items of 1000 of EvalRules
ManyItemsCount == 1001

\* user_items of validate_list for the answer that joins ManyItemsCount
\* distinct one-character items with commas
ManyItems == [i \in 1..ManyItemsCount |-> <<chr(19967 + i)>>]

\* C17: validate_list rejects every answer whose unique item count is below
\* min_items or above max_items, for every pair min_items <= max_items that a
\* rule sets (max_items is not left at its default), also when every item
\* matches an accepted answer: for the answer given to validate_answer and
\* for the answer of ManyItemsCount items.
C17_CountEnforced ==
    (/\ EvaluatedList
     /\ validation_rule.min_items <= validation_rule.max_items
     /\ validation_rule.max_items # DefaultMaxItems)
    => /\ UniqueCount(split_list_answer(player_answer), validation_rule)
             \notin validation_rule.min_items..validation_rule.max_items
          => ~rule_result.is_correct
       /\ UniqueCount(ManyItems, validation_rule)
             \notin validation_rule.min_items..validation_rule.max_items
          => ~ListItemsOutcome(ManyItems, validation_rule).is_correct

\* the normalised items of the answer given to validate_answer
AnswerItems ==
    NormalizeItems(split_list_answer(player_answer), validation_rule.case_sensitive)

\* the values that two items of the answer share
SharedValues ==
    {AnswerItems[i] : i \in {j \in DOMAIN AnswerItems :
                                \E k \in DOMAIN AnswerItems \ {j} :
                                    AnswerItems[k] = AnswerItems[j]}}

\* C18: validate_list rejects every answer in which two items have the same
\* normalised value, whatever the items match and whatever the bounds, and
\* the reasoning reports exactly the values that occur more than once.
C18_DuplicatesRejected ==
    (EvaluatedList /\ SharedValues # {})
    => rule_result = Verdict(FALSE, 0, Reason("Duplicate items found", SharedValues),
                             "rule_based")

\* C18 witness: "a, A" given to a rule that ignores case, accepts "a" and
\* asks for one item: both items match and one unique item is within the
\* bounds
C18_Witness ==
    /\ EvaluatedList
    /\ player_answer = <<"a", ",", " ", "A">>
    /\ validation_rule = ValidationRule("LIST", << <<"a">> >>, 0, FALSE, 1, 1)
    /\ rule_result.reasoning = Reason("Duplicate items found", { <<"a">> })

RECURSIVE PieceSpans(_, _, _)
\* the positions <<first, last>> in s of the pieces that ReSplit(s, i, start)
\* returns
PieceSpans(s, i, start) ==
    IF i > Len(s) THEN << <<start, Len(s)>> >>
    ELSE IF SepLenAt(s, i) = 0 THEN PieceSpans(s, i + 1, start)
    ELSE << <<start, i - 1>> >> \o PieceSpans(s, i + SepLenAt(s, i), i + SepLenAt(s, i))

\* the piece of s at a span
PieceAt(s, span) == SubSeq(s, span[1], span[2])

\* the positions <<first, last>> in s of piece.strip() for the piece at span
StrippedSpan(s, span) ==
    <<span[1] + Len(PieceAt(s, span)) - Len(lstrip(PieceAt(s, span))),
      span[2] - (Len(PieceAt(s, span)) - Len(rstrip(PieceAt(s, span))))>>

\* the positions in text of the items that split_list_answer(text) returns
ItemSpans(text) ==
    LET spans == PieceSpans(text, 1, 1)
        kept == SelectSeq(spans, LAMBDA span : strip(PieceAt(text, span)) # <<>>)
    IN [k \in DOMAIN kept |-> StrippedSpan(text, kept[k])]

\* the text between item k and item k + 1 of text: gap 0 is before the first
\* item, the last gap is after the last item
GapAt(text, spans, k) ==
    SubSeq(text,
           IF k = 0 THEN 1 ELSE spans[k][2] + 1,
           IF k = Len(spans) THEN Len(text) ELSE spans[k + 1][1] - 1)

RECURSIVE PermutedFrom(_, _, _, _)
\* text from its item k on, with item order[j] in the place of item j
PermutedFrom(text, spans, order, k) ==
    IF k > Len(spans) THEN <<>>
    ELSE PieceAt(text, spans[order[k]]) \o GapAt(text, spans, k)
         \o PermutedFrom(text, spans, order, k + 1)

\* text with its items in the given order and everything between them kept
PermutedAnswer(text, order) ==
    GapAt(text, ItemSpans(text), 0) \o PermutedFrom(text, ItemSpans(text), order, 1)

\* the orders in which the items of the answer given to validate_answer can
\* be written
ItemOrders ==
    {order \in [DOMAIN ItemSpans(player_answer) -> DOMAIN ItemSpans(player_answer)] :
        \A i, j \in DOMAIN order : order[i] = order[j] => i = j}

\* C19: the verdict of a LIST rule does not depend on the order of the items:
\* for every rule and every answer, the answer with its items permuted and
\* its separators kept gets the same is_correct.
C19_OrderIndependent ==
    EvaluatedList
    => \A order \in ItemOrders :
          validate_answer(PermutedAnswer(player_answer, order), validation_rule).is_correct
              = rule_result.is_correct

\* the normalised accepted answers of the rule given to validate_answer
PoolItems ==
    NormalizeItems(validation_rule.correct_answers, validation_rule.case_sensitive)

\* the items of the answer, in order, that neither equal a normalised
\* accepted answer nor are within edit distance 1 of one
UnmatchedItems ==
    SelectSeq(AnswerItems,
              LAMBDA item : \A c \in DOMAIN PoolItems :
                               /\ item # PoolItems[c]
                               /\ levenshtein_distance(item, PoolItems[c]) > 1)

\* the answer is rejected by the count tests of lines 169-174
CountRejected ==
    \/ /\ validation_rule.min_items > 0
       /\ Cardinality(SetOf(AnswerItems)) < validation_rule.min_items
    \/ /\ validation_rule.max_items < DefaultMaxItems
       /\ Cardinality(SetOf(AnswerItems)) > validation_rule.max_items

\* the verdict that names the unmatched items
UnmatchedVerdict ==
    Verdict(FALSE, 0, Reason("Invalid item(s)", UnmatchedItems), "rule_based")

\* C20 as stated: an item is matched iff it equals a normalised accepted
\* answer or is within edit distance 1 of one; an answer with an unmatched
\* item is rejected and the reasoning names exactly the unmatched items (for
\* the rules that satisfy the invariant of ValidationRule).
C20_UnmatchedNamed ==
    (EvaluatedList /\ RuleInvariant(validation_rule) /\ UnmatchedItems # <<>>)
    => rule_result = UnmatchedVerdict

\* C20 amended: an answer with an unmatched item is rejected; when it has no
\* duplicate item and is not rejected for its item count, the reasoning names
\* exactly the unmatched items, in the order of the answer; an answer with
\* items that has no duplicate, is not rejected for its count and has no
\* unmatched item is accepted.
C20_UnmatchedNamedAfterChecks ==
    EvaluatedList
    => /\ UnmatchedItems # <<>> => ~rule_result.is_correct
       /\ (UnmatchedItems # <<>> /\ SharedValues = {} /\ ~CountRejected)
             => rule_result = UnmatchedVerdict
       /\ (AnswerItems # <<>> /\ UnmatchedItems = <<>> /\ SharedValues = {}
              /\ ~CountRejected)
             => rule_result.is_correct

\* C20 witness: the item "a" is contained in the accepted answer "a a" and
\* is at edit distance 2 of it: it is unmatched and the reasoning names it
C20_Witness ==
    /\ EvaluatedList
    /\ player_answer = <<"a">>
    /\ validation_rule = ValidationRule("LIST", << <<"A", " ", "a">> >>, 0, FALSE, 1, 1)
    /\ rule_result = Verdict(FALSE, 0, Reason("Invalid item(s)", << <<"a">> >>),
                             "rule_based")

(***************************************************************************)
(* The Numeric strategy (under SpecEval)                                   *)
(***************************************************************************)

\* validate_answer has returned for a rule of type NUMERIC that satisfies the
\* invariant of ValidationRule and whose first accepted answer is a number
EvaluatedNumeric ==
    /\ pc = "EVALUATED"
    /\ validation_rule.validation_type = "NUMERIC"
    /\ RuleInvariant(validation_rule)
    /\ float(validation_rule.correct_answers[1]).ok

\* |v - t| <= tolerance in exact decimal arithmetic, for the first number v of
\* the answer and the first accepted answer t
WithinExactly ==
    abs(float(FirstNumber(player_answer)).value
          - float(validation_rule.correct_answers[1]).value)
       <= validation_rule.tolerance

\* C21: a NUMERIC rule accepts iff the answer contains a number and
\* |v - t| <= tolerance, the boundary included; an answer with no number is
\* rejected.
C21_NumericWithinTolerance ==
    EvaluatedNumeric
    => (rule_result.is_correct
           <=> (FirstNumber(player_answer) # <<>> /\ WithinExactly))

(***************************************************************************)
(* split_list_answer (under SpecEval)                                      *)
(***************************************************************************)

\* position i of s is where a token starts: the start of the text, or after
\* whitespace, a comma or a semicolon
TokenStart(s, i) ==
    i = 1 \/ IsSpace(s[i - 1]) \/ s[i - 1] \in {",", ";"}

\* position i of s is where a token ends
TokenEnd(s, i) ==
    i = Len(s) \/ IsSpace(s[i + 1]) \/ s[i + 1] \in {",", ";"}

\* the token that starts at position i of s is the conjunction w, in any case
ConjunctionAt(s, i, w) ==
    /\ TokenStart(s, i)
    /\ i + Len(Conjunctions[w]) - 1 <= Len(s)
    /\ lower(SubSeq(s, i, i + Len(Conjunctions[w]) - 1)) = Conjunctions[w]
    /\ TokenEnd(s, i + Len(Conjunctions[w]) - 1)

\* position i of s belongs to a separator: a comma, a semicolon, or one of
\* the tokens "och", "and", "&"
InSeparator(s, i) ==
    \/ s[i] \in {",", ";"}
    \/ \E w \in DOMAIN Conjunctions, j \in 1..i :
          ConjunctionAt(s, j, w) /\ i <= j + Len(Conjunctions[w]) - 1

RECURSIVE ItemsBetween(_, _, _)
\* the text of s between its separators, from position i on with the current
\* item starting at position start
ItemsBetween(s, i, start) ==
    IF i > Len(s) THEN <<SubSeq(s, start, Len(s))>>
    ELSE IF InSeparator(s, i)
    THEN <<SubSeq(s, start, i - 1)>> \o ItemsBetween(s, i + 1, i + 1)
    ELSE ItemsBetween(s, i + 1, start)

\* the items of text as the claim describes them: the text is cut at every
\* separator, each item is trimmed, the empty ones are dropped, the order is
\* kept and equal items are kept
TokenSplit(text) ==
    SelectSeq([k \in DOMAIN ItemsBetween(text, 1, 1) |->
                  strip(ItemsBetween(text, 1, 1)[k])],
              LAMBDA item : item # <<>>)

\* C22: split_list_answer cuts the text at every comma, every semicolon and
\* every occurrence of the tokens "och", "and", "&" in any case, trims the
\* items, drops the empty ones, keeps the order and does not deduplicate.
C22_SplitAtEveryToken ==
    pc = "EVALUATED" => split_list_answer(player_answer) = TokenSplit(player_answer)

(***************************************************************************)
(* The Contains strategy (under SpecEval)                                  *)
(***************************************************************************)

\* validate_answer has returned for a rule of type CONTAINS
EvaluatedContains ==
    pc = "EVALUATED" /\ validation_rule.validation_type = "CONTAINS"

\* the positions <<first, last>> of the whitespace-delimited words of s: the
\* maximal runs of characters that are no whitespace
WordSpans(s) ==
    {span \in (1..Len(s)) \X (1..Len(s)) :
        /\ span[1] <= span[2]
        /\ \A k \in span[1]..span[2] : ~IsSpace(s[k])
        /\ span[1] = 1 \/ IsSpace(s[span[1] - 1])
        /\ span[2] = Len(s) \/ IsSpace(s[span[2] + 1])}

\* the whitespace-delimited words of s
WordSet(s) == {SubSeq(s, span[1], span[2]) : span \in WordSpans(s)}

\* accepted term k of the rule after normalization
NormalizedTerm(k) ==
    normalize_text(validation_rule.correct_answers[k], validation_rule.case_sensitive)

\* the answer after normalization
NormalizedAnswer ==
    normalize_text(player_answer, validation_rule.case_sensitive)

\* accepted term k is a substring of the answer, or the answer of the term
TermContained(k) ==
    \/ IsSubstring(NormalizedTerm(k), NormalizedAnswer)
    \/ IsSubstring(NormalizedAnswer, NormalizedTerm(k))

\* a word of the answer equals accepted term k, is a substring of it,
\* contains it, or is within edit distance 2 of it
WordMatchesTerm(k) ==
    \E w \in WordSet(NormalizedAnswer) :
        \/ w = NormalizedTerm(k)
        \/ IsSubstring(w, NormalizedTerm(k))
        \/ IsSubstring(NormalizedTerm(k), w)
        \/ levenshtein_distance(w, NormalizedTerm(k)) <= 2

\* C23: validate_contains accepts iff for some accepted term t, after
\* normalization, t is a substring of the answer, the answer is a substring
\* of t, or some whitespace-delimited word w of the answer equals t, is a
\* substring of t, contains t or is within edit distance 2 of t; the verdict
\* of validate_answer for an answer that is not blank is that outcome.
C23_ContainsIff ==
    EvaluatedContains
    => /\ validate_contains(player_answer, validation_rule).is_correct
             <=> \E k \in DOMAIN validation_rule.correct_answers :
                    TermContained(k) \/ WordMatchesTerm(k)
       /\ ~BlankAnswer
             => rule_result.is_correct
                   = validate_contains(player_answer, validation_rule).is_correct

\* C23 witness: "A a" is accepted for the term "1", which the answer does not
\* contain and which is within distance 2 of the word "a" only
C23_Witness ==
    /\ EvaluatedContains
    /\ player_answer = <<"A", " ", "a">>
    /\ validation_rule.correct_answers = << <<"1">> >>
    /\ rule_result.is_correct

(***************************************************************************)
(* The AnyOf strategy (under SpecEval)                                     *)
(***************************************************************************)

\* validate_answer has returned for a rule of type ANY_OF
EvaluatedAnyOf ==
    pc = "EVALUATED" /\ validation_rule.validation_type = "ANY_OF"

\* accepted answer k is contained in the answer, contains it, or is within
\* edit distance 2 of it, all after normalization
Qualifies(k) ==
    \/ IsSubstring(NormalizedTerm(k), NormalizedAnswer)
    \/ IsSubstring(NormalizedAnswer, NormalizedTerm(k))
    \/ levenshtein_distance(NormalizedAnswer, NormalizedTerm(k)) <= 2

\* the accepted answers that qualify
Qualifying == {k \in DOMAIN validation_rule.correct_answers : Qualifies(k)}

\* C24: validate_any_of accepts iff some accepted answer is contained in the
\* normalized answer, contains it, or is within edit distance 2 of it, and
\* then the reasoning names the first such accepted answer in the order of
\* correct_answers; the verdict of validate_answer for an answer that is not
\* blank is that outcome.
C24_AnyOfFirstMatch ==
    EvaluatedAnyOf
    => /\ validate_any_of(player_answer, validation_rule).is_correct
             <=> Qualifying # {}
       /\ Qualifying # {}
             => validate_any_of(player_answer, validation_rule).reasoning
                  = Reason("Matched acceptable answer",
                           <<validation_rule.correct_answers[Min(Qualifying)]>>)
       /\ ~BlankAnswer
             => /\ rule_result.is_correct
                     = validate_any_of(player_answer, validation_rule).is_correct
                /\ rule_result.reasoning
                     = validate_any_of(player_answer, validation_rule).reasoning

\* C24 witness: "a" given to a rule that accepts "A a" and "a": both qualify
\* and the reasoning names "A a", the first
C24_Witness ==
    /\ EvaluatedAnyOf
    /\ player_answer = <<"a">>
    /\ validation_rule.correct_answers = << <<"A", " ", "a">>, <<"a">> >>
    /\ Qualifying = {1, 2}
    /\ rule_result.is_correct
    /\ rule_result.reasoning = Reason("Matched acceptable answer", << <<"A", " ", "a">> >>)

(***************************************************************************)
(* answer_validator.py: levenshtein_distance called on its own             *)
(***************************************************************************)

\* longest string given to levenshtein_distance
MaxDistLen == 4

\* the characters of those strings
DistChars == {"a", "b"}

\* the strings given to levenshtein_distance, the empty one included
DistStrings == Strings(DistChars, MaxDistLen)

\* one call levenshtein_distance(s1, s2) is about to be made
InitDistance ==
    /\ USE_OLLAMA = TRUE
    /\ OLLAMA_CONFIDENCE_THRESHOLD = 80
    /\ pc = "DISTANCE"
    /\ player_answer = <<>>
    /\ correct_answer = <<>>
    /\ day_number = NoDay
    /\ validation_rule = None
    /\ rule_result = None
    /\ oracle_calls = 0
    /\ response = None
    /\ returned = None
    /\ registry = QUESTION_RULES
    /\ calls = <<>>
    /\ s1 \in DistStrings
    /\ s2 \in DistStrings
    /\ distance = None
    /\ InitDatabase

\* levenshtein_distance(s1, s2) runs and returns
Distance ==
    /\ pc = "DISTANCE"
    /\ distance' = levenshtein_distance(s1, s2)
    /\ pc' = "MEASURED"
    /\ UNCHANGED <<USE_OLLAMA, OLLAMA_CONFIDENCE_THRESHOLD, registry, calls,
                   player_answer, correct_answer, day_number, validation_rule,
                   rule_result, oracle_calls, response, returned, s1, s2,
                   database>>

NextDistance == Distance

SpecDistance == InitDistance /\ [][NextDistance]_vars

(***************************************************************************)
(* The edit distance (under SpecDistance)                                  *)
(***************************************************************************)

\* the strings one insertion, deletion or substitution of a character of
\* DistChars away from s, none longer than limit
OneEditAway(s, limit) ==
    {[s EXCEPT ![i] = c] : i \in DOMAIN s, c \in DistChars}
    \cup {SubSeq(s, 1, i - 1) \o SubSeq(s, i + 1, Len(s)) : i \in DOMAIN s}
    \cup (IF Len(s) < limit
          THEN {SubSeq(s, 1, i) \o <<c>> \o SubSeq(s, i + 1, Len(s)) :
                    i \in 0..Len(s), c \in DistChars}
          ELSE {})

RECURSIVE EditsToReach(_, _, _, _)
\* the least number of edits after which b is among the strings reached, when
\* the strings of the set reached are reached with n edits or fewer
EditsToReach(reached, b, n, limit) ==
    IF b \in reached THEN n
    ELSE EditsToReach(reached \cup UNION {OneEditAway(s, limit) : s \in reached},
                      b, n + 1, limit)

\* the classic Levenshtein distance by its definition: the least number of
\* single-character insertions, deletions and substitutions that turn a into
\* b.  A shortest sequence of edits can delete first, substitute next and
\* insert last, and can insert and substitute the characters of b only, so
\* its strings are no longer than the longer of a and b.
ClassicDistance(a, b) ==
    EditsToReach({a}, b, 0, IF Len(a) < Len(b) THEN Len(b) ELSE Len(a))

\* C25: levenshtein_distance(a, b) is the classic Levenshtein distance of a
\* and b; hence it is symmetric, 0 for equal strings, len(s) from the empty
\* string to s, and it satisfies the triangle inequality.
C25_ClassicDistance ==
    pc = "MEASURED"
    => /\ distance = ClassicDistance(s1, s2)
       /\ distance = levenshtein_distance(s2, s1)
       /\ levenshtein_distance(s1, s1) = 0
       /\ levenshtein_distance(<<>>, s1) = Len(s1)
       /\ \A s3 \in DistStrings :
             distance <= levenshtein_distance(s1, s3) + levenshtein_distance(s3, s2)

\* C25 witness: the distance from "ab" to "bab" is 1 (one insertion), where
\* comparing position by position gives 3
C25_Witness ==
    /\ pc = "MEASURED"
    /\ s1 = <<"a", "b">>
    /\ s2 = <<"b", "a", "b">>
    /\ distance = 1

(***************************************************************************)
(* Normalization (under SpecEval)                                          *)
(***************************************************************************)

\* text has no whitespace at either end and no two whitespace characters in a
\* row
Tidy(text) ==
    /\ text # <<>> => ~IsSpace(text[1]) /\ ~IsSpace(text[Len(text)])
    /\ \A i \in 1..(Len(text) - 1) : ~(IsSpace(text[i]) /\ IsSpace(text[i + 1]))

\* C26: normalize_text is idempotent and total: for the answer s of the call,
\* the empty and the whitespace-only ones included, and both values of
\* case_sensitive c, normalize_text(normalize_text(s, c), c) equals
\* normalize_text(s, c), which has no leading or trailing whitespace and no
\* run of two or more whitespace characters.
C26_NormalizeIdempotent ==
    pc = "EVALUATED"
    => \A c \in BOOLEAN :
          /\ normalize_text(player_answer, c) \in Seq(STRING)
          /\ normalize_text(normalize_text(player_answer, c), c)
                = normalize_text(player_answer, c)
          /\ Tidy(normalize_text(player_answer, c))

\* C26 witness: " A<tab> a " is normalized to "a a" by a rule that ignores
\* case
C26_Witness ==
    /\ pc = "EVALUATED"
    /\ player_answer = <<" ", "A", "\t", " ", "a", " ">>
    /\ ~validation_rule.case_sensitive
    /\ normalize_text(player_answer, validation_rule.case_sensitive) = <<"a", " ", "a">>

(***************************************************************************)
(* The synonym pool of the List strategy (under SpecEval)                  *)
(***************************************************************************)

\* accepted entry k of the rule equals item i of the answer or is one edit
\* away from it, both normalized
EntryMatchesItem(k, i) ==
    \/ NormalizedTerm(k) = AnswerItems[i]
    \/ levenshtein_distance(AnswerItems[i], NormalizedTerm(k)) <= 1

\* the accepted entries that every item of the answer matches
EntriesOfAllItems ==
    {k \in DOMAIN validation_rule.correct_answers :
        \A i \in DOMAIN AnswerItems : EntryMatchesItem(k, i)}

\* the answer has two items or more, no two of them with the same normalized
\* value, and their number is within the bounds of the rule
DistinctWithinBounds ==
    /\ Len(AnswerItems) >= 2
    /\ SharedValues = {}
    /\ validation_rule.min_items <= Len(AnswerItems)
    /\ Len(AnswerItems) <= validation_rule.max_items

C28_FallbackNeverMatches ==
    /\ pc = "ORACLE_CALL" => ~is_exact(player_answer, correct_answer)
    /\ (returned # None /\ returned.method = "exact_fallback")
       => /\ oracle_calls = 1
          /\ ~is_exact(player_answer, correct_answer)
          /\ returned.is_match = FALSE
          /\ returned.confidence = 0

\* C28 witness: ollama.chat raised for an answer that differs from the
\* correct answer, and the fallback said no match with confidence 0
C28_Witness ==
    /\ pc = "FALLBACK_VERDICT"
    /\ response.kind = "raise"
    /\ returned.method = "exact_fallback"
    /\ ~returned.is_match
    /\ returned.confidence = 0

(***************************************************************************)
(* main.py: submit_answer and update_player_answer on the database.  The   *)
(* endpoints are plain def functions, which the server runs on the threads *)
(* of a pool; each request opens its own sqlite3 connection.  A connection *)
(* reads the committed rows; its first INSERT or UPDATE opens a            *)
(* transaction and takes the write lock of the file, which it keeps until  *)
(* it commits or is closed, and another connection that wants to write     *)
(* waits for the lock.                                                     *)
(***************************************************************************)

\* most requests taken up in one behaviour
MaxRequests == 3

\* last day of the quiz that the requests are about
MaxDay == 2

\* the threads that serve requests
Workers == {1, 2}

\* the day_number of a request
QuizDays == 1..MaxDay

\* submission.answer of a submit_answer request
SubmittedAnswers ==
    { <<"C", "l", "o", "e", "t", "t", "a">>,
      <<"a">> }

\* answer_update of an update_player_answer request
AnswerUpdates ==
    { [is_correct |-> FALSE, points_earned |-> 0],
      [is_correct |-> TRUE, points_earned |-> 5] }

\* table questions: correct_answer by day_number
questions == [d \in QuizDays |-> <<"C", "l", "o", "e", "t", "t", "a">>]

\* what ollama.chat does if a request gets as far as calling it
QuizResponses == {[kind |-> "raise", error |-> "ConnectError"]}

\* a row of player_answers of the player in the quiz
AnswerRow(day, answer, is_correct, points_earned) ==
    [day_number |-> day, answer |-> answer, is_correct |-> is_correct,
     points_earned |-> points_earned]

\* the rows of a table for a day: WHERE player_id = ? AND quiz_id = ? AND
\* day_number = ?
RowsOfDay(rows, day) == {row \in rows : row.day_number = day}

RECURSIVE TotalPoints(_)
\* SELECT SUM(points_earned) ... or 0, over the rows of the player in the quiz
TotalPoints(rows) ==
    IF rows = {} THEN 0
    ELSE (CHOOSE row \in rows : TRUE).points_earned
         + TotalPoints(rows \ {CHOOSE row \in rows : TRUE})

\* the locals of a thread that serves no request
IdleRequest ==
    [pc |-> "IDLE", kind |-> "none", day_number |-> 0, answer |-> <<>>,
     is_correct |-> FALSE, points_earned |-> 0, old_points |-> 0,
     total_score |-> 0, status |-> 0]

\* the locals of a request that has ended with an HTTP status
Ended(request, status) == [request EXCEPT !.pc = "DONE", !.status = status]

\* what the database variables hold in a transaction that has just begun
Snapshot == [player_answers |-> player_answers, score |-> score]

\* the variables that no request on the database assigns
checking == <<USE_OLLAMA, OLLAMA_CONFIDENCE_THRESHOLD, registry, calls, pc,
              player_answer, correct_answer, day_number, validation_rule,
              rule_result, oracle_calls, response, returned, s1, s2, distance>>

InitQuiz ==
    /\ USE_OLLAMA = TRUE
    /\ OLLAMA_CONFIDENCE_THRESHOLD = 80
    /\ pc = "SERVING"
    /\ player_answer = <<>>
    /\ correct_answer = <<>>
    /\ day_number = NoDay
    /\ validation_rule = None
    /\ rule_result = None
    /\ oracle_calls = 0
    /\ response = None
    /\ returned = None
    /\ registry = QUESTION_RULES
    /\ calls = <<>>
    /\ s1 = <<>>
    /\ s2 = <<>>
    /\ distance = None
    /\ player_answers = {}
    /\ score = 0
    /\ writer = 0
    /\ pending = None
    /\ requests = [i \in Workers |-> IdleRequest]
    /\ served = 0

\* a thread takes up POST /api/questions/{day_number}/answer
StartSubmit(i) ==
    /\ requests[i].pc \in {"IDLE", "DONE"}
    /\ served < MaxRequests
    /\ \E d \in QuizDays, a \in SubmittedAnswers :
          requests' = [requests EXCEPT ![i] =
              [IdleRequest EXCEPT !.pc = IF d > 1 THEN "PREVIOUS_DAY"
                                         ELSE "CHECK_ANSWER",
                                  !.kind = "submit_answer",
                                  !.day_number = d, !.answer = a]]
    /\ served' = served + 1
    /\ UNCHANGED <<checking, player_answers, score, writer, pending>>

\* lines 1515-1526 of submit_answer: the previous day must be answered
PreviousDay(i) ==
    /\ requests[i].pc = "PREVIOUS_DAY"
    /\ requests' = [requests EXCEPT ![i] =
          IF RowsOfDay(player_answers, requests[i].day_number - 1) = {}
          THEN Ended(requests[i], 403)
          ELSE [requests[i] EXCEPT !.pc = "CHECK_ANSWER"]]
    /\ UNCHANGED <<checking, player_answers, score, writer, pending, served>>

\* is_correct of submit_answer for what check_answer_with_ai returned
Checked(request, check_result) ==
    [request EXCEPT !.pc = "EXISTING",
                    !.is_correct = check_result.is_match,
                    !.points_earned = IF check_result.is_match THEN 10 ELSE 0]

\* lines 1528-1563 of submit_answer: the question of the day is read and
\* check_answer_with_ai decides
CheckAnswer(i) ==
    /\ requests[i].pc = "CHECK_ANSWER"
    /\ \E r \in QuizResponses :
          requests' = [requests EXCEPT ![i] =
              Checked(requests[i],
                      CheckAlone(requests[i].answer,
                                 questions[requests[i].day_number],
                                 <<requests[i].day_number>>, r, USE_OLLAMA,
                                 OLLAMA_CONFIDENCE_THRESHOLD))]
    /\ UNCHANGED <<checking, player_answers, score, writer, pending, served>>

\* lines 1565-1575 of submit_answer: has the player answered this day?
Existing(i) ==
    /\ requests[i].pc = "EXISTING"
    /\ requests' = [requests EXCEPT ![i] =
          IF RowsOfDay(player_answers, requests[i].day_number) # {}
          THEN Ended(requests[i], 400)
          ELSE [requests[i] EXCEPT !.pc = "INSERT"]]
    /\ UNCHANGED <<checking, player_answers, score, writer, pending, served>>

\* lines 1577-1581 of submit_answer: the INSERT, which begins a transaction;
\* UNIQUE(player_id, quiz_id, day_number) of init_db makes it raise
\* sqlite3.IntegrityError, which nothing catches, when the day has a row
Insert(i) ==
    /\ requests[i].pc = "INSERT"
    /\ writer = 0
    /\ writer' = i
    /\ IF RowsOfDay(player_answers, requests[i].day_number) # {}
       THEN /\ pending' = Snapshot
            /\ requests' = [requests EXCEPT ![i].pc = "RAISED", ![i].status = 500]
       ELSE /\ pending' = [Snapshot EXCEPT !.player_answers =
                   @ \cup {AnswerRow(requests[i].day_number, requests[i].answer,
                                     requests[i].is_correct,
                                     requests[i].points_earned)}]
            /\ requests' = [requests EXCEPT ![i].pc = "COMMIT_ANSWER"]
    /\ UNCHANGED <<checking, player_answers, score, served>>

\* line 1583 of submit_answer: conn.commit()
CommitAnswer(i) ==
    /\ requests[i].pc = "COMMIT_ANSWER"
    /\ writer = i
    /\ player_answers' = pending.player_answers
    /\ score' = pending.score
    /\ writer' = 0
    /\ pending' = None
    /\ requests' = [requests EXCEPT ![i].pc = "SUM_POINTS"]
    /\ UNCHANGED <<checking, served>>

\* lines 1585-1591 of submit_answer: SELECT SUM(points_earned)
SumPoints(i) ==
    /\ requests[i].pc = "SUM_POINTS"
    /\ requests' = [requests EXCEPT ![i].pc = "SET_SCORE",
                                    ![i].total_score = TotalPoints(player_answers)]
    /\ UNCHANGED <<checking, player_answers, score, writer, pending, served>>

\* line 1594 of submit_answer: UPDATE players SET score = ?
SetScore(i) ==
    /\ requests[i].pc = "SET_SCORE"
    /\ writer = 0
    /\ writer' = i
    /\ pending' = [Snapshot EXCEPT !.score = requests[i].total_score]
    /\ requests' = [requests EXCEPT ![i].pc = "COMMIT_SCORE"]
    /\ UNCHANGED <<checking, player_answers, score, served>>

\* lines 1595-1603 of submit_answer: conn.commit() and the response
CommitScore(i) ==
    /\ requests[i].pc = "COMMIT_SCORE"
    /\ writer = i
    /\ player_answers' = pending.player_answers
    /\ score' = pending.score
    /\ writer' = 0
    /\ pending' = None
    /\ requests' = [requests EXCEPT ![i] = Ended(requests[i], 200)]
    /\ UNCHANGED <<checking, served>>

\* the connection of a request that raised is closed when its frame is
\* released: the transaction is rolled back and the lock is free
Finalize(i) ==
    /\ requests[i].pc = "RAISED"
    /\ writer = i
    /\ writer' = 0
    /\ pending' = None
    /\ requests' = [requests EXCEPT ![i].pc = "DONE"]
    /\ UNCHANGED <<checking, player_answers, score, served>>

\* a thread takes up PUT /api/quiz/{quiz_id}/player/{player_id}/answer/
\* {day_number} for a quiz of the user who asks
StartUpdate(i) ==
    /\ requests[i].pc \in {"IDLE", "DONE"}
    /\ served < MaxRequests
    /\ \E d \in QuizDays, u \in AnswerUpdates :
          requests' = [requests EXCEPT ![i] =
              [IdleRequest EXCEPT !.pc = "OLD_POINTS",
                                  !.kind = "update_player_answer",
                                  !.day_number = d,
                                  !.is_correct = u.is_correct,
                                  !.points_earned = u.points_earned]]
    /\ served' = served + 1
    /\ UNCHANGED <<checking, player_answers, score, writer, pending>>

\* lines 1396-1411 of update_player_answer: the old points of the answer
OldPoints(i) ==
    /\ requests[i].pc = "OLD_POINTS"
    /\ requests' = [requests EXCEPT ![i] =
          IF RowsOfDay(player_answers, requests[i].day_number) = {}
          THEN Ended(requests[i], 404)
          ELSE [requests[i] EXCEPT
                   !.pc = "UPDATE_ANSWER",
                   !.old_points =
                       (CHOOSE row \in RowsOfDay(player_answers,
                                                 requests[i].day_number) :
                            TRUE).points_earned]]
    /\ UNCHANGED <<checking, player_answers, score, writer, pending, served>>

\* the rows after UPDATE player_answers SET is_correct = ?, points_earned = ?
\* for the day of the request
UpdatedRows(rows, request) ==
    {IF row.day_number = request.day_number
     THEN [row EXCEPT !.is_correct = request.is_correct,
                      !.points_earned = request.points_earned]
     ELSE row : row \in rows}

\* lines 1413-1418 of update_player_answer: the UPDATE of the answer, which
\* begins a transaction
UpdateAnswer(i) ==
    /\ requests[i].pc = "UPDATE_ANSWER"
    /\ writer = 0
    /\ writer' = i
    /\ pending' = [Snapshot EXCEPT !.player_answers = UpdatedRows(@, requests[i])]
    /\ requests' = [requests EXCEPT ![i].pc = "ADD_DIFFERENCE"]
    /\ UNCHANGED <<checking, player_answers, score, served>>

\* lines 1420-1425 of update_player_answer: UPDATE players SET score =
\* score + points_difference
AddDifference(i) ==
    /\ requests[i].pc = "ADD_DIFFERENCE"
    /\ writer = i
    /\ pending' = [pending EXCEPT !.score =
                      @ + (requests[i].points_earned - requests[i].old_points)]
    /\ requests' = [requests EXCEPT ![i].pc = "COMMIT_UPDATE"]
    /\ UNCHANGED <<checking, player_answers, score, writer, served>>

\* lines 1427-1435 of update_player_answer: conn.commit() and the response
CommitUpdate(i) ==
    /\ requests[i].pc = "COMMIT_UPDATE"
    /\ writer = i
    /\ player_answers' = pending.player_answers
    /\ score' = pending.score
    /\ writer' = 0
    /\ pending' = None
    /\ requests' = [requests EXCEPT ![i] = Ended(requests[i], 200)]
    /\ UNCHANGED <<checking, served>>

NextQuiz ==
    \E i \in Workers :
        \/ StartSubmit(i) \/ PreviousDay(i) \/ CheckAnswer(i) \/ Existing(i)
        \/ Insert(i) \/ CommitAnswer(i) \/ SumPoints(i) \/ SetScore(i)
        \/ CommitScore(i) \/ Finalize(i)
        \/ StartUpdate(i) \/ OldPoints(i) \/ UpdateAnswer(i)
        \/ AddDifference(i) \/ CommitUpdate(i)

SpecQuiz == InitQuiz /\ [][NextQuiz]_vars

(***************************************************************************)
(* The score and the recorded answers (under SpecQuiz)                     *)
(***************************************************************************)

\* no request is under way
AllCompleted == \A i \in Workers : requests[i].pc \in {"IDLE", "DONE"}

\* C29: after any interleaving of submit_answer and update_player_answer for
\* one player and quiz, once all requests have completed the stored score of
\* the player equals the sum of points_earned over the recorded answers of
\* the player in the quiz.
C29_ScoreIsSumOfPoints ==
    AllCompleted => score = TotalPoints(player_answers)

\* C30: at most one answer is recorded per day of the player in the quiz, and
\* a submit_answer that finds the day answered when it comes to record its
\* answer is rejected as already answered (status 400).
C30_RejectedAsAnswered ==
    /\ \A d \in QuizDays : Cardinality(RowsOfDay(player_answers, d)) <= 1
    /\ \A i \in Workers :
          (requests[i].kind = "submit_answer" /\ requests[i].pc \in {"RAISED", "DONE"})
          => requests[i].status \in {200, 400, 403}

====
